---- MODULE Spec2Model ----
(***************************************************************************)
(* Password analysis engine of strong-pass-scanner                         *)
(* (src/src/utils/passwordAnalysis.ts), and the two components of the      *)
(* page that work on the password: BreachChecker and PasswordGenerator.    *)
(*                                                                         *)
(* The specifications share the variables: Spec is one call of             *)
(* analyzePassword or generateFeedback, HashSpec one call of               *)
(* calculateHashStrength, ScoreSpec the score combiner on every            *)
(* combination of signals, BreachSpec the breach check under edits of the  *)
(* password (BreachLiveSpec with promises that settle), DebounceSpec the   *)
(* debounced analysis of the page (DebounceLiveSpec with timers that       *)
(* expire), GeneratorSpec the password generator.                          *)
(*                                                                         *)
(* A JavaScript string is modelled as a sequence of UTF-16 code units,     *)
(* each code unit a one-element TLA+ string.  `.length`, `substring`,      *)
(* `includes` and regular expressions without the u flag work on code      *)
(* units; `for (const c of s)` iterates code points, pairing a high        *)
(* surrogate with the low surrogate that follows it.                       *)
(*                                                                         *)
(* Numbers: Shannon entropy is kept in micro-bits (10^-6 bit), the n-gram  *)
(* likelihood as an exact fraction, the running score as an IEEE-754       *)
(* double (an integer count of 2^-53 held in two limbs), crack-time        *)
(* quantities as arbitrary-precision naturals.                             *)
(***************************************************************************)
EXTENDS Integers, Sequences, FiniteSets, TLC

VARIABLES
    call,         \* the invocation under way: [fn |-> name, arg |-> argument]
    zxcvbnCalls,  \* how many times the external estimator zxcvbn was called
    baseline,     \* what zxcvbn answered (const zxcvbnResult), <<>> before
    ret,          \* the value returned, meaningful once pc = "returned"
    pc,           \* "called" while the function runs, then "returned"
    currentPassword,  \* state `password` of Index, prop of BreachChecker
    lastToast,    \* title of the toast shown last, "" when none was shown
    checking,     \* state `checking` of BreachChecker
    result,       \* state `result` of BreachChecker
    flight,       \* the calls of checkBreach suspended at an await
    requests,     \* the URLs handed to fetch so far
    length,             \* state `length` of PasswordGenerator (length[0])
    includeUppercase,   \* the four check boxes of PasswordGenerator
    includeLowercase,
    includeNumbers,
    includeSymbols,
    generatedPassword,  \* state `generatedPassword` of PasswordGenerator
    generatedAnalysis,  \* state `analysis` of PasswordGenerator
    timers,             \* pending setTimeout callbacks of Index, each the
                        \* password its closure holds
    displayedAnalysis   \* state `analysis` of Index

analysisVars == <<call, zxcvbnCalls, baseline, ret, pc>>

generatorVars ==
    <<length, includeUppercase, includeLowercase, includeNumbers,
      includeSymbols, generatedPassword, generatedAnalysis>>

debounceVars == <<timers, displayedAnalysis>>

pageVars ==
    <<currentPassword, lastToast, checking, result, flight, requests,
      generatorVars, debounceVars>>

vars == <<analysisVars, pageVars>>

(***************************************************************************)
(* Bounds of the model.                                                    *)
(***************************************************************************)
\* Every string over Alphabet of at most MaxLen code units is analysed.
MaxLen == 3

(***************************************************************************)
(* Text primitives of the JavaScript runtime.                              *)
(***************************************************************************)
UpperAZ ==
    <<"A", "B", "C", "D", "E", "F", "G", "H", "I", "J", "K", "L", "M",
      "N", "O", "P", "Q", "R", "S", "T", "U", "V", "W", "X", "Y", "Z">>

LowerAZ ==
    <<"a", "b", "c", "d", "e", "f", "g", "h", "i", "j", "k", "l", "m",
      "n", "o", "p", "q", "r", "s", "t", "u", "v", "w", "x", "y", "z">>

Digits09 == <<"0", "1", "2", "3", "4", "5", "6", "7", "8", "9">>

Range(f) == {f[i] : i \in DOMAIN f}

\* The two halves of U+1F600, a character outside the Basic Multilingual
\* Plane: one code point, two UTF-16 code units.
HighSurrogates == {"D83D"}

LowSurrogates == {"DE00"}

\* Code units the regular-expression atom `.` does not match.
LineTerminators == {"\n", "\r", "2028", "2029"}

UpperSet == Range(UpperAZ)

LowerSet == Range(LowerAZ)

DigitSet == Range(Digits09)

\* /[A-Z]/, /[a-z]/, /[0-9]/ and /[^A-Za-z0-9]/ on one code unit.
IsUpper(u) == u \in UpperSet

IsLower(u) == u \in LowerSet

IsDigit(u) == u \in DigitSet

IsOther(u) == ~IsUpper(u) /\ ~IsLower(u) /\ ~IsDigit(u)

\* RegExp.prototype.test for the four one-unit character classes: some
\* code unit of the string is in the class.
TestUpper(s) == \E i \in 1..Len(s) : IsUpper(s[i])

TestLower(s) == \E i \in 1..Len(s) : IsLower(s[i])

TestDigit(s) == \E i \in 1..Len(s) : IsDigit(s[i])

TestOther(s) == \E i \in 1..Len(s) : IsOther(s[i])

\* String.prototype.toLowerCase, on the code units of the model.
toLowerCase(s) ==
    [i \in 1..Len(s) |->
        IF IsUpper(s[i])
        THEN LowerAZ[CHOOSE k \in 1..26 : UpperAZ[k] = s[i]]
        ELSE s[i]]

Min(a, b) == IF a < b THEN a ELSE b

Max(a, b) == IF a > b THEN a ELSE b

\* String.prototype.substring(start, end): both indices are clamped to
\* [0, length]; code-unit positions, zero based, end exclusive.
substring(s, start, end) ==
    LET a == Max(0, Min(start, Len(s)))
        b == Max(0, Min(end, Len(s)))
    IN  SubSeq(s, Min(a, b) + 1, Max(a, b))

\* String.prototype.includes.
includes(s, sub) ==
    \E i \in 0..(Len(s) - Len(sub)) : SubSeq(s, i + 1, i + Len(sub)) = sub

\* Array.prototype.includes.
arrayIncludes(arr, x) == \E i \in 1..Len(arr) : arr[i] = x

\* The string iterator (`for (const character of password)`): the code
\* points of s from code-unit position i on.  A surrogate pair is one
\* character, a lone surrogate is a character of its own.
RECURSIVE CodePointsFrom(_, _)
CodePointsFrom(s, i) ==
    IF i > Len(s) THEN <<>>
    ELSE IF /\ s[i] \in HighSurrogates
            /\ i < Len(s)
            /\ s[i + 1] \in LowSurrogates
         THEN <<SubSeq(s, i, i + 1)>> \o CodePointsFrom(s, i + 2)
         ELSE <<SubSeq(s, i, i)>> \o CodePointsFrom(s, i + 1)

CodePoints(s) == CodePointsFrom(s, 1)

(***************************************************************************)
(* calculateEntropy                                                        *)
(***************************************************************************)
\* Math.log2 on the integers 1..32, in micro-bits.
Log2Micro ==
    <<0, 1000000, 1584963, 2000000, 2321928, 2584963, 2807355, 3000000,
      3169925, 3321928, 3459432, 3584963, 3700440, 3807355, 3906891,
      4000000, 4087463, 4169925, 4247928, 4321928, 4392317, 4459432,
      4523562, 4584963, 4643856, 4700440, 4754888, 4807355, 4857981,
      4906891, 4954196, 5000000>>

\* characterCounts: how often each character (code point) occurs.
characterCounts(password) ==
    LET chars == CodePoints(password)
    IN  [c \in Range(chars) |->
            Cardinality({i \in 1..Len(chars) : chars[i] = c})]

\* The loop over Object.values(characterCounts) followed by the final
\* multiplication: each count contributes
\*     -(count / passwordLength) * log2(count / passwordLength)
\* and the sum is multiplied by passwordLength, which is
\*     count * (log2(passwordLength) - log2(count)).
\* passwordLength is password.length, a number of code units.
RECURSIVE totalEntropy(_, _, _)
totalEntropy(counts, keys, passwordLength) ==
    IF keys = {} THEN 0
    ELSE LET k == CHOOSE c \in keys : TRUE
         IN  counts[k] * (Log2Micro[passwordLength] - Log2Micro[counts[k]])
               + totalEntropy(counts, keys \ {k}, passwordLength)

calculateEntropy(password) ==
    LET passwordLength == Len(password)
        counts == characterCounts(password)
    IN  totalEntropy(counts, DOMAIN counts, passwordLength)

(***************************************************************************)
(* Pattern detectors                                                       *)
(***************************************************************************)
\* /(.)\1{2,}/ : a code unit other than a line terminator, followed by
\* itself at least twice.  No i flag, no s flag, no u flag.
hasRepeatedCharacters(password) ==
    \E i \in 1..(Len(password) - 2) :
        /\ password[i] \notin LineTerminators
        /\ password[i + 1] = password[i]
        /\ password[i + 2] = password[i]

commonSequences ==
    << LowerAZ,
       <<"z", "y", "x", "w", "v", "u", "t", "s", "r", "q", "p", "o", "n",
         "m", "l", "k", "j", "i", "h", "g", "f", "e", "d", "c", "b", "a">>,
       Digits09,
       <<"9", "8", "7", "6", "5", "4", "3", "2", "1", "0">>,
       <<"q", "w", "e", "r", "t", "y", "u", "i", "o", "p">>,
       <<"a", "s", "d", "f", "g", "h", "j", "k", "l">>,
       <<"z", "x", "c", "v", "b", "n", "m">> >>

\* Some 3-unit chunk of `sequence` occurs in `text`.
ChunkOfIn(sequence, text) ==
    \E position \in 0..(Len(sequence) - 3) :
        includes(text, substring(sequence, position, position + 3))

hasSequentialCharacters(password) ==
    LET lowercasePassword == toLowerCase(password)
    IN  \E k \in 1..Len(commonSequences) :
            ChunkOfIn(commonSequences[k], lowercasePassword)

keyboardRows ==
    << << <<"q", "w", "e", "r", "t", "y", "u", "i", "o", "p">>,
          <<"p", "o", "i", "u", "y", "t", "r", "e", "w", "q">> >>,
       << <<"a", "s", "d", "f", "g", "h", "j", "k", "l">>,
          <<"l", "k", "j", "h", "g", "f", "d", "s", "a">> >>,
       << <<"z", "x", "c", "v", "b", "n", "m">>,
          <<"m", "n", "b", "v", "c", "x", "z">> >>,
       << <<"1", "2", "3", "4", "5", "6", "7", "8", "9", "0">>,
          <<"0", "9", "8", "7", "6", "5", "4", "3", "2", "1">> >> >>

detectKeyboardPattern(password) ==
    LET lowercasePassword == toLowerCase(password)
    IN  \E k \in 1..Len(keyboardRows) :
            \/ ChunkOfIn(keyboardRows[k][1], lowercasePassword)
            \/ ChunkOfIn(keyboardRows[k][2], lowercasePassword)

commonWords ==
    << <<"p", "a", "s", "s", "w", "o", "r", "d">>,
       <<"a", "d", "m", "i", "n">>,
       <<"u", "s", "e", "r">>,
       <<"l", "o", "g", "i", "n">>,
       <<"w", "e", "l", "c", "o", "m", "e">>,
       <<"m", "o", "n", "k", "e", "y">>,
       <<"d", "r", "a", "g", "o", "n">>,
       <<"m", "a", "s", "t", "e", "r">>,
       <<"s", "h", "a", "d", "o", "w">>,
       <<"s", "u", "n", "s", "h", "i", "n", "e">>,
       <<"p", "r", "i", "n", "c", "e", "s", "s">>,
       <<"f", "o", "o", "t", "b", "a", "l", "l">>,
       <<"b", "a", "s", "e", "b", "a", "l", "l">>,
       <<"s", "u", "p", "e", "r", "m", "a", "n">>,
       <<"b", "a", "t", "m", "a", "n">>,
       <<"t", "r", "u", "s", "t", "n", "o", "1">>,
       <<"l", "e", "t", "m", "e", "i", "n">>,
       <<"w", "e", "l", "c", "o", "m", "e">>,
       <<"w", "h", "a", "t", "e", "v", "e", "r">>,
       <<"s", "e", "c", "r", "e", "t">> >>

\* The dictionary test on the password as typed, without toLowerCase.
detectDictionaryWordsCaseSensitive(password) ==
    \E k \in 1..Len(commonWords) : includes(password, commonWords[k])

detectDictionaryWords(password) ==
    LET lowercasePassword == toLowerCase(password)
    IN  \E k \in 1..Len(commonWords) :
            includes(lowercasePassword, commonWords[k])

(***************************************************************************)
(* calculateNgramLikelihood                                                *)
(***************************************************************************)
common2CharChunks ==
    << <<"1", "2">>, <<"2", "3">>, <<"3", "4">>, <<"4", "5">>, <<"5", "6">>,
       <<"6", "7">>, <<"7", "8">>, <<"8", "9">>, <<"9", "0">>, <<"a", "b">>,
       <<"b", "c">>, <<"c", "d">>, <<"d", "e">>, <<"e", "r">>, <<"e", "s">>,
       <<"s", "t">>, <<"t", "h">>, <<"a", "n">>, <<"i", "n">>, <<"o", "n">> >>

common3CharChunks ==
    << <<"1", "2", "3">>, <<"2", "3", "4">>, <<"3", "4", "5">>,
       <<"4", "5", "6">>, <<"5", "6", "7">>, <<"6", "7", "8">>,
       <<"7", "8", "9">>, <<"8", "9", "0">>, <<"a", "b", "c">>,
       <<"b", "c", "d">>, <<"c", "d", "e">>, <<"d", "e", "f">>,
       <<"t", "h", "e">>, <<"a", "n", "d">>, <<"i", "n", "g">>,
       <<"i", "o", "n">>, <<"a", "s", "s">>, <<"o", "r", "d">> >>

RECURSIVE GCD(_, _)
GCD(a, b) == IF b = 0 THEN a ELSE GCD(b, a % b)

\* The number num / den as a fraction in lowest terms; 0 / 0 is NaN, the
\* result of JavaScript's 0 / 0.
Fraction(num, den) ==
    IF den = 0 THEN [num |-> 0, den |-> 0]
    ELSE LET g == GCD(num, den) IN [num |-> num \div g, den |-> den \div g]

NaN == [num |-> 0, den |-> 0]

\* x > k and x < k for a fraction x and an integer k; every comparison
\* with NaN is false.
FracGT(x, k) == x.den # 0 /\ x.num > k * x.den

FracLT(x, k) == x.den # 0 /\ x.num < k * x.den

\* The loop bound written `position <= length - size + 1`: one window too
\* many.
WindowsOneMore(text, size) == {p \in 0..(Len(text) - size + 1) : TRUE}

\* The positions at which the two loops look, and the windows that match.
Windows(text, size) == {p \in 0..(Len(text) - size) : TRUE}

MatchingWindows(text, size, chunks) ==
    {p \in Windows(text, size) :
        arrayIncludes(chunks, substring(text, p, p + size))}

\* The likelihood without the `totalChunksChecked === 0` return.
calculateNgramLikelihoodNoGuard(password) ==
    LET lowercasePassword == toLowerCase(password)
        twice == 2 * Cardinality(MatchingWindows(lowercasePassword, 2,
                                                 common2CharChunks))
                 + 3 * Cardinality(MatchingWindows(lowercasePassword, 3,
                                                   common3CharChunks))
        totalChunksChecked == Cardinality(Windows(lowercasePassword, 2))
                              + Cardinality(Windows(lowercasePassword, 3))
        percentageMatch == Fraction(100 * twice, 2 * totalChunksChecked)
    IN  IF FracGT(percentageMatch, 100) THEN Fraction(100, 1)
        ELSE percentageMatch

\* matchesFound is kept doubled (a 2-chunk match counts 2, a 3-chunk match
\* counts 3) so that the weight 1.5 stays an integer.
calculateNgramLikelihood(password) ==
    LET lowercasePassword == toLowerCase(password)
        twice == 2 * Cardinality(MatchingWindows(lowercasePassword, 2,
                                                 common2CharChunks))
                 + 3 * Cardinality(MatchingWindows(lowercasePassword, 3,
                                                   common3CharChunks))
        totalChunksChecked == Cardinality(Windows(lowercasePassword, 2))
                              + Cardinality(Windows(lowercasePassword, 3))
        percentageMatch == Fraction(100 * twice, 2 * totalChunksChecked)
    IN  IF totalChunksChecked = 0 THEN Fraction(0, 1)
        ELSE IF FracGT(percentageMatch, 100) THEN Fraction(100, 1)
        ELSE percentageMatch

(***************************************************************************)
(* calculateEntropyPerCharacter                                            *)
(***************************************************************************)
\* The growth data computed with the entropy of the whole password at
\* every position.
calculateEntropyPerCharacterWhole(password) ==
    [position \in 1..Len(password) |->
        [character |-> position, entropy |-> calculateEntropy(password)]]

calculateEntropyPerCharacter(password) ==
    [position \in 1..Len(password) |->
        [character |-> position,
         entropy |-> calculateEntropy(substring(password, 0, position))]]

(***************************************************************************)
(* getCharDistribution                                                     *)
(***************************************************************************)
\* The chain of tests without the /[0-9]/ branch: a digit falls through to
\* the symbols.
ClassOfNoDigitBranch(character) ==
    IF TestUpper(character) THEN "uppercase"
    ELSE IF TestLower(character) THEN "lowercase"
    ELSE "symbols"

\* The class of one character of the string iterator.  The tests are
\* /[A-Z]/.test(character) and so on: a surrogate pair holds no letter and
\* no digit and falls to the else branch.
ClassOf(character) ==
    IF TestUpper(character) THEN "uppercase"
    ELSE IF TestLower(character) THEN "lowercase"
    ELSE IF TestDigit(character) THEN "numbers"
    ELSE "symbols"

getCharDistribution(password) ==
    LET chars == CodePoints(password)
        Count(class) ==
            Cardinality({i \in 1..Len(chars) : ClassOf(chars[i]) = class})
    IN  [uppercase |-> Count("uppercase"),
         lowercase |-> Count("lowercase"),
         numbers |-> Count("numbers"),
         symbols |-> Count("symbols")]

(***************************************************************************)
(* Arbitrary-precision naturals, for Math.pow(characterPoolSize, length)   *)
(* and the quantities compared with it.  A natural is the sequence of its  *)
(* base-10000 digits, least significant first, without leading zeros.      *)
(***************************************************************************)
BigBase == 10 ^ 4

RECURSIVE BigFromInt(_)
BigFromInt(n) ==
    IF n = 0 THEN <<>> ELSE <<n % BigBase>> \o BigFromInt(n \div BigBase)

RECURSIVE BigMulCarry(_, _, _)
BigMulCarry(a, k, carry) ==
    IF a = <<>> THEN BigFromInt(carry)
    ELSE LET t == Head(a) * k + carry
         IN  <<t % BigBase>> \o BigMulCarry(Tail(a), k, t \div BigBase)

\* a * k for a machine integer 0 <= k <= 200000.
BigMulSmall(a, k) == IF k = 0 THEN <<>> ELSE BigMulCarry(a, k, 0)

RECURSIVE BigAddCarry(_, _, _)
BigAddCarry(a, b, carry) ==
    IF a = <<>> /\ b = <<>> THEN BigFromInt(carry)
    ELSE LET x == IF a = <<>> THEN 0 ELSE Head(a)
             y == IF b = <<>> THEN 0 ELSE Head(b)
             t == x + y + carry
         IN  <<t % BigBase>>
               \o BigAddCarry(IF a = <<>> THEN a ELSE Tail(a),
                              IF b = <<>> THEN b ELSE Tail(b),
                              t \div BigBase)

BigAdd(a, b) == BigAddCarry(a, b, 0)

\* a < b.
RECURSIVE BigLessFrom(_, _, _)
BigLessFrom(a, b, i) ==
    IF i = 0 THEN FALSE
    ELSE IF a[i] # b[i] THEN a[i] < b[i]
    ELSE BigLessFrom(a, b, i - 1)

BigLess(a, b) ==
    IF Len(a) # Len(b) THEN Len(a) < Len(b) ELSE BigLessFrom(a, b, Len(a))

RECURSIVE BigPow(_, _)
BigPow(base, exponent) ==
    IF exponent = 0 THEN BigFromInt(1)
    ELSE BigMulSmall(BigPow(base, exponent - 1), base)

\* Math.round(c / d) for naturals c and d > 0 whose quotient is at most
\* `most`: the k with k <= c / d + 1/2 < k + 1, that is
\* k * 2d <= 2c + d < (k + 1) * 2d, found by bisection.
RECURSIVE BigRoundSearch(_, _, _, _)
BigRoundSearch(x, twoD, low, high) ==
    IF low = high THEN low
    ELSE LET mid == (low + high + 1) \div 2
         IN  IF BigLess(x, BigMulSmall(twoD, mid))
             THEN BigRoundSearch(x, twoD, low, mid - 1)
             ELSE BigRoundSearch(x, twoD, mid, high)

BigRoundDiv(c, d, most) ==
    BigRoundSearch(BigAdd(BigMulSmall(c, 2), d), BigMulSmall(d, 2), 0, most)

(***************************************************************************)
(* calculateHashStrength                                                   *)
(***************************************************************************)
bcryptSpeed == 1000

sha256Speed == 1000000000

argon2Speed == 500

\* A formatted duration: `${value} ${unit}`, or for the scientific form
\* `${value / 100}e+${exponent} years` with a three-digit value, or 'N/A'.
FormattedTime(unit, value, exponent) ==
    [unit |-> unit, value |-> value, exponent |-> exponent]

NotAvailableTime == FormattedTime("N/A", 0, 0)

\* a multiplied by every factor of the sequence in turn.
RECURSIVE BigScale(_, _)
BigScale(a, factors) ==
    IF factors = <<>> THEN a
    ELSE BigScale(BigMulSmall(a, Head(factors)), Tail(factors))

\* Number.prototype.toExponential(2) of c / d >= 100.  ExponentOf returns
\* d * 10^e for the largest e with d * 10^e <= c, and e itself; the
\* mantissa is c / (d * 10^(e - 2)) rounded to an integer, and a mantissa
\* rounded up to 1000 is written 1.00 with the next exponent.
RECURSIVE ExponentOf(_, _, _)
ExponentOf(c, scaled, e) ==
    IF BigLess(c, BigMulSmall(scaled, 10)) THEN <<e, scaled>>
    ELSE ExponentOf(c, BigMulSmall(scaled, 10), e + 1)

toExponential2(c, d) ==
    LET found == ExponentOf(c, BigMulSmall(d, 100), 2)
        e == found[1]
        mantissa == BigRoundDiv(BigMulSmall(c, 100), found[2], 1000)
    IN  IF mantissa = 1000
        THEN FormattedTime("e+ years", 100, e + 1)
        ELSE FormattedTime("e+ years", mantissa, e)

\* formatTime(totalCombinations / (speed * 2)).  The argument is the exact
\* quotient c / r; every comparison `totalSeconds < t` is c < t * r and
\* every Math.round(totalSeconds / u) is the rounding of c / (u * r).
formatTime(c, r) ==
    IF BigLess(c, BigMulSmall(r, 60))
    THEN FormattedTime("seconds", BigRoundDiv(c, r, 60), 0)
    ELSE IF BigLess(c, BigMulSmall(r, 3600))
    THEN FormattedTime("minutes", BigRoundDiv(c, BigMulSmall(r, 60), 60), 0)
    ELSE IF BigLess(c, BigMulSmall(r, 86400))
    THEN FormattedTime("hours", BigRoundDiv(c, BigMulSmall(r, 3600), 24), 0)
    ELSE IF BigLess(c, BigScale(r, <<86400, 365>>))
    THEN FormattedTime("days", BigRoundDiv(c, BigMulSmall(r, 86400), 365), 0)
    ELSE IF BigLess(c, BigScale(r, <<86400, 365, 100>>))
    THEN FormattedTime("years",
                       BigRoundDiv(c, BigScale(r, <<86400, 365>>), 100), 0)
    ELSE toExponential2(c, BigScale(r, <<86400, 365>>))

\* formatGuesses: the rate in tenths of the unit (toFixed(1)), or the plain
\* number with unit "/sec" below 1000.
formatGuesses(guessesPerSecond) ==
    IF guessesPerSecond >= 1000000000
    THEN [tenths |-> (guessesPerSecond * 2 + 100000000) \div 200000000,
          unit |-> "B/sec"]
    ELSE IF guessesPerSecond >= 1000000
    THEN [tenths |-> (guessesPerSecond * 2 + 100000) \div 200000,
          unit |-> "M/sec"]
    ELSE IF guessesPerSecond >= 1000
    THEN [tenths |-> (guessesPerSecond * 2 + 100) \div 200, unit |-> "K/sec"]
    ELSE [tenths |-> guessesPerSecond * 10, unit |-> "/sec"]

NotAvailableGuesses == [tenths |-> 0, unit |-> "N/A"]

\* The size of the character pool: 26 + 26 + 10 + 32 for the classes that
\* occur among the code units of the password.
characterPoolSize(password) ==
    (IF TestLower(password) THEN 26 ELSE 0)
    + (IF TestUpper(password) THEN 26 ELSE 0)
    + (IF TestDigit(password) THEN 10 ELSE 0)
    + (IF TestOther(password) THEN 32 ELSE 0)

\* The timing model fed by the entropy argument: 2^bits combinations.
calculateHashStrengthFromEntropy(password, entropy) ==
    LET totalCombinations == BigPow(2, entropy \div 1000000)
        Entry(speed) ==
            [time |-> formatTime(totalCombinations,
                                 BigMulSmall(BigFromInt(speed), 2)),
             guessesPerSecond |-> formatGuesses(speed)]
    IN  [bcrypt |-> Entry(bcryptSpeed),
         sha256 |-> Entry(sha256Speed),
         argon2 |-> Entry(argon2Speed)]

\* The entropy argument is not used by the function.
calculateHashStrength(password, entropy) ==
    LET totalCombinations ==
            BigPow(characterPoolSize(password), Len(password))
        Entry(speed) ==
            [time |-> formatTime(totalCombinations,
                                 BigMulSmall(BigFromInt(speed), 2)),
             guessesPerSecond |-> formatGuesses(speed)]
    IN  [bcrypt |-> Entry(bcryptSpeed),
         sha256 |-> Entry(sha256Speed),
         argon2 |-> Entry(argon2Speed)]

(***************************************************************************)
(* IEEE-754 double arithmetic of the score.  Every value the score takes   *)
(* is a multiple of 2^-53 below 8; a double is the pair <<hi, lo>> that    *)
(* stands for (hi * 2^26 + lo) * 2^-53.  A result is rounded to 53         *)
(* significant bits, ties to even, as the hardware does.                   *)
(***************************************************************************)
DblLimb == 2 ^ 26

DblFromInt(k) == <<k * (2 ^ 27), 0>>

\* The literals 1.5, 1.2, 0.8, 0.7 and 0.5 as doubles.
Dbl1_5 == <<201326592, 0>>

Dbl1_2 == <<161061273, 40265318>>

Dbl0_8 == <<107374182, 26843546>>

Dbl0_7 == <<93952409, 40265318>>

Dbl0_5 == <<67108864, 0>>

DblLess(a, b) == a[1] < b[1] \/ (a[1] = b[1] /\ a[2] < b[2])

\* Rounding of an exact multiple of 2^-53 to the nearest double: the
\* spacing of doubles is 2^-53 below 1, 2^-52 in [1, 2), 2^-51 in [2, 4)
\* and 2^-50 in [4, 8).
DblRound(x) ==
    LET g  == IF x[1] >= 2 ^ 29 THEN 8
              ELSE IF x[1] >= 2 ^ 28 THEN 4
              ELSE IF x[1] >= 2 ^ 27 THEN 2
              ELSE 1
        q  == x[2] \div g
        r  == x[2] % g
        up == 2 * r > g \/ (2 * r = g /\ q % 2 = 1)
        lo == (IF up THEN q + 1 ELSE q) * g
    IN  IF lo = DblLimb THEN <<x[1] + 1, 0>> ELSE <<x[1], lo>>

\* a - b for a >= b, and a + b.
DblSub(a, b) ==
    DblRound(IF a[2] >= b[2]
             THEN <<a[1] - b[1], a[2] - b[2]>>
             ELSE <<a[1] - b[1] - 1, a[2] + DblLimb - b[2]>>)

DblAdd(a, b) ==
    DblRound(IF a[2] + b[2] < DblLimb
             THEN <<a[1] + b[1], a[2] + b[2]>>
             ELSE <<a[1] + b[1] + 1, a[2] + b[2] - DblLimb>>)

\* Math.max(0, finalScore - w) and Math.min(4, finalScore + w).
MaxZeroMinus(finalScore, w) ==
    IF DblLess(finalScore, w) THEN DblFromInt(0) ELSE DblSub(finalScore, w)

\* A bonus added without the ceiling of 4.
MinFourPlusNoCeiling(finalScore, w) == DblAdd(finalScore, w)

MinFourPlus(finalScore, w) ==
    LET sum == DblAdd(finalScore, w)
    IN  IF DblLess(DblFromInt(4), sum) THEN DblFromInt(4) ELSE sum

\* Math.round: the nearest integer, a tie going up.
MathRound(x) ==
    (x[1] \div (2 ^ 27)) + (IF x[1] % (2 ^ 27) >= 2 ^ 26 THEN 1 ELSE 0)

(***************************************************************************)
(* The score combiner of analyzePassword (STEP 6) and the label table      *)
(* (STEP 7).                                                               *)
(***************************************************************************)
\* The entropy thresholds 30 and 60 bits, in micro-bits.
Entropy30 == 30 * 1000000

Entropy60 == 60 * 1000000

\* A penalty statement that adds its weight.
PenaltyAdded(condition, score, w) ==
    IF condition THEN MinFourPlus(score, w) ELSE score

\* One `if (condition) finalScore = Math.max(0, finalScore - w)` and one
\* `if (condition) finalScore = Math.min(4, finalScore + w)` statement.
Penalty(condition, score, w) ==
    IF condition THEN MaxZeroMinus(score, w) ELSE score

Bonus(condition, score, w) ==
    IF condition THEN MinFourPlus(score, w) ELSE score

\* The value of finalScore after the ten statements, from the zxcvbn score
\* and the signals the statements test: the record m of measurements.
finalScore(score, m) ==
    LET s0  == DblFromInt(score)
        s1  == Penalty(m.hasDictionaryWords, s0, Dbl1_5)
        s2  == Penalty(m.hasKeyboardPattern, s1, Dbl1_2)
        s3  == Penalty(FracGT(m.ngramLikelihood, 50), s2, DblFromInt(1))
        s4  == Penalty(m.hasSequentialChars, s3, Dbl0_8)
        s5  == Penalty(m.hasRepeatedChars, s4, Dbl0_7)
        s6  == Penalty(m.length < 8, s5, Dbl0_5)
        s7  == Bonus(m.length >= 16, s6, DblFromInt(1))
        s8  == Bonus(m.entropy > Entropy60, s7, DblFromInt(1))
        s9  == Bonus(m.hasUppercase /\ m.hasLowercase /\ m.hasNumbers
                         /\ m.hasSymbols,
                     s8, DblFromInt(1))
        s10 == Bonus(FracLT(m.ngramLikelihood, 20), s9, Dbl0_5)
    IN  s10

strengthLabels ==
    [s \in 0..4 |->
        CASE s = 0 -> "very-weak"
          [] s = 1 -> "weak"
          [] s = 2 -> "fair"
          [] s = 3 -> "strong"
          [] s = 4 -> "very-strong"]

\* strengthLabels[roundedScore]: a missing key reads as undefined.
strengthOf(roundedScore) ==
    IF roundedScore \in DOMAIN strengthLabels
    THEN strengthLabels[roundedScore]
    ELSE "undefined"

(***************************************************************************)
(* generateFeedback                                                        *)
(***************************************************************************)
\* The argument is a Partial<PasswordAnalysis>: a record that may lack any
\* field.  A missing field reads as undefined, which is falsy.
Has(analysis, field) == field \in DOMAIN analysis

Flag(analysis, field) == Has(analysis, field) /\ analysis[field]

\* A push that appends the message twice.
PushTwice(condition, message) ==
    IF condition THEN <<message, message>> ELSE <<>>

Push(condition, message) == IF condition THEN <<message>> ELSE <<>>

SuccessMessage == "Excellent! Your password is strong and secure."

generateFeedback(analysis) ==
    LET suggestions ==
            Push(~Has(analysis, "length") \/ analysis.length = 0
                     \/ analysis.length < 8,
                 "Use at least 8 characters")
            \o Push(~Flag(analysis, "hasUppercase"),
                    "Add uppercase letters (A-Z)")
            \o Push(~Flag(analysis, "hasLowercase"),
                    "Add lowercase letters (a-z)")
            \o Push(~Flag(analysis, "hasNumbers"), "Add numbers (0-9)")
            \o Push(~Flag(analysis, "hasSymbols"),
                    "Add special characters (!@#$%^&*)")
            \o Push(Flag(analysis, "hasRepeatedChars"),
                    "Avoid repeated characters (e.g., aaa, 111)")
            \o Push(Flag(analysis, "hasSequentialChars"),
                    "Avoid sequential characters (e.g., abc, 123)")
            \o Push(Flag(analysis, "hasKeyboardPattern"),
                    "Avoid keyboard patterns (e.g., qwerty, asdf)")
            \o Push(Flag(analysis, "hasDictionaryWords"),
                    "Avoid common dictionary words")
            \o Push(/\ Has(analysis, "entropy")
                    /\ analysis.entropy # 0
                    /\ analysis.entropy < Entropy30,
                    "Increase complexity with varied characters")
    IN  IF Len(suggestions) = 0 THEN <<SuccessMessage>> ELSE suggestions

(***************************************************************************)
(* analyzePassword                                                         *)
(***************************************************************************)
\* The report returned for the empty password.
emptyAnalysis ==
    [score |-> 0,
     strength |-> "very-weak",
     entropy |-> 0,
     length |-> 0,
     hasUppercase |-> FALSE,
     hasLowercase |-> FALSE,
     hasNumbers |-> FALSE,
     hasSymbols |-> FALSE,
     hasRepeatedChars |-> FALSE,
     hasSequentialChars |-> FALSE,
     hasKeyboardPattern |-> FALSE,
     hasDictionaryWords |-> FALSE,
     charDistribution |->
         [uppercase |-> 0, lowercase |-> 0, numbers |-> 0, symbols |-> 0],
     feedback |-> <<"Enter a password to begin analysis">>,
     crackTime |-> "N/A",
     ngramLikelihood |-> Fraction(0, 1),
     hashStrength |->
         [bcrypt |-> [time |-> NotAvailableTime,
                      guessesPerSecond |-> NotAvailableGuesses],
          sha256 |-> [time |-> NotAvailableTime,
                      guessesPerSecond |-> NotAvailableGuesses],
          argon2 |-> [time |-> NotAvailableTime,
                      guessesPerSecond |-> NotAvailableGuesses]],
     entropyPerCharacter |-> <<>>]

\* STEP 2 to STEP 5 for a non-empty password: everything the function
\* computes from the password alone.
measurements(password) ==
    [entropy |-> calculateEntropy(password),
     length |-> Len(password),
     charDistribution |-> getCharDistribution(password),
     hasUppercase |-> TestUpper(password),
     hasLowercase |-> TestLower(password),
     hasNumbers |-> TestDigit(password),
     hasSymbols |-> TestOther(password),
     hasRepeatedChars |-> hasRepeatedCharacters(password),
     hasSequentialChars |-> hasSequentialCharacters(password),
     hasKeyboardPattern |-> detectKeyboardPattern(password),
     hasDictionaryWords |-> detectDictionaryWords(password),
     ngramLikelihood |-> calculateNgramLikelihood(password),
     entropyPerCharacter |-> calculateEntropyPerCharacter(password),
     hashStrength |->
         calculateHashStrength(password, calculateEntropy(password))]

\* STEP 6 to STEP 10: the score from the answer of zxcvbn (STEP 1) and the
\* measurements m, the label, the report and its feedback.
completeAnalysis(m, zxcvbnResult) ==
    LET roundedScore == MathRound(finalScore(zxcvbnResult.score, m))
        analysis ==
            [score |-> roundedScore,
             strength |-> strengthOf(roundedScore),
             entropy |-> m.entropy,
             length |-> m.length,
             hasUppercase |-> m.hasUppercase,
             hasLowercase |-> m.hasLowercase,
             hasNumbers |-> m.hasNumbers,
             hasSymbols |-> m.hasSymbols,
             hasRepeatedChars |-> m.hasRepeatedChars,
             hasSequentialChars |-> m.hasSequentialChars,
             hasKeyboardPattern |-> m.hasKeyboardPattern,
             hasDictionaryWords |-> m.hasDictionaryWords,
             charDistribution |-> m.charDistribution,
             feedback |-> <<>>,
             crackTime |-> zxcvbnResult.crack_time,
             ngramLikelihood |-> m.ngramLikelihood,
             hashStrength |-> m.hashStrength,
             entropyPerCharacter |-> m.entropyPerCharacter]
    IN  [analysis EXCEPT !.feedback = generateFeedback(analysis)]

(***************************************************************************)
(* The inputs: the functions of the module are called with every argument  *)
(* of the sets below.                                                      *)
(***************************************************************************)
\* Lower-case and upper-case letters, a digit, a symbol, a line break and
\* the two halves of a surrogate pair.
Alphabet == {"a", "b", "c", "A", "1", "!", "\n", "D83D", "DE00"}

StringsUpTo(n) == UNION {[1..k -> Alphabet] : k \in 0..n}

\* Longer passwords: a dictionary word with a suffix and one in mixed case,
\* runs, keyboard rows, one repeated character, passwords of 8, 10, 12 and
\* 20 distinct characters of all four classes, one of entropy exactly 30,
\* two of 20 characters built from common chunks (likelihood 37.8 and 51.4)
\* on which no detector fires.
Samples ==
    { <<"p", "a", "s", "s", "w", "o", "r", "d", "1", "2", "3">>,
      <<"M", "y", "U", "s", "E", "r", "!", "9">>,
      <<"a", "a", "a", "1", "1", "1">>,
      <<"a", "a", "a", "a", "a", "a", "a", "a">>,
      <<"K", "7", "#", "m", "Q", "2", "$", "x", "V", "9", "!", "b", "T", "4", "@", "h", "W", "6", "&", "z">>,
      <<"K", "7", "#", "m", "Q", "2", "$", "x", "V", "9", "!", "b">>,
      <<"K", "7", "#", "m", "Q", "2", "$", "x", "V", "9">>,
      <<"K", "7", "#", "m", "Q", "2", "$", "x">>,
      <<"a", "b", "a", "c", "a", "b", "a", "d", "a", "b", "a", "c", "a", "b", "a", "e">>,
      <<"q", "w", "e", "r", "t", "y">>,
      <<"X", "e", "w", "q", "9">>,
      <<"m", "a", "s", "t", "e", "r", "K", "7", "#", "m", "Q", "2", "$", "x", "V", "9">>,
      <<"1", "2", "3", "4", "5", "6", "7", "8", "9", "0">>,
      <<"T", "r", "0", "u", "b", "4", "d", "o", "r", "&", "3">>,
      <<"T", "h", "e", "s", "t", "a", "n", "d", "i", "n", "g", "i", "o", "n", "e", "s", "t", "!", "9", "#">>,
      <<"9", "!", "s", "T", "h", "e", "S", "t", "H", "E", "S", "T", "h", "E", "S", "T", "h", "E", "s", "T">>,
      <<"1", "2", "3">>,
      <<"q", "w", "e", "r">> }

Passwords == StringsUpTo(MaxLen) \cup Samples

\* What zxcvbn may answer: a score 0..4 and a crack-time label.
ZxcvbnResults ==
    [score : 0..4, crack_time : {"less than a second", "centuries"}]

\* Arguments of generateFeedback: every combination of the ten signals, and
\* the same with the entropy, the length or every field left out.
FeedbackFields ==
    {"length", "hasUppercase", "hasLowercase", "hasNumbers", "hasSymbols",
     "hasRepeatedChars", "hasSequentialChars", "hasKeyboardPattern",
     "hasDictionaryWords", "entropy"}

FullFeedbackInputs ==
    [length : {0, 7, 8, 16},
     hasUppercase : BOOLEAN, hasLowercase : BOOLEAN,
     hasNumbers : BOOLEAN, hasSymbols : BOOLEAN,
     hasRepeatedChars : BOOLEAN, hasSequentialChars : BOOLEAN,
     hasKeyboardPattern : BOOLEAN, hasDictionaryWords : BOOLEAN,
     entropy : {0, Entropy30 - 1, Entropy30, Entropy60 + 1}]

Restrict(r, fields) == [f \in fields |-> r[f]]

FeedbackInputs ==
    {Restrict(r, fields) :
        r \in FullFeedbackInputs,
        fields \in {FeedbackFields, FeedbackFields \ {"entropy"},
                    FeedbackFields \ {"length"}, {}}}

Calls ==
    {[fn |-> "analyzePassword", arg |-> p] : p \in Passwords}
    \cup {[fn |-> "generateFeedback", arg |-> a] : a \in FeedbackInputs}

(***************************************************************************)
(* The page before anything was typed or clicked (useState initial values  *)
(* of Index, BreachChecker and PasswordGenerator).                         *)
(***************************************************************************)
\* JavaScript null.
null == [null |-> TRUE]

PageInit ==
    /\ currentPassword = <<>>
    /\ lastToast = ""
    /\ checking = FALSE
    /\ result = null
    /\ flight = {}
    /\ requests = {}
    /\ length = 16
    /\ includeUppercase = TRUE
    /\ includeLowercase = TRUE
    /\ includeNumbers = TRUE
    /\ includeSymbols = TRUE
    /\ generatedPassword = <<>>
    /\ generatedAnalysis = null
    /\ timers = {<<>>}
    /\ displayedAnalysis = emptyAnalysis

(***************************************************************************)
(* The state machine: one call of an exported function.                    *)
(***************************************************************************)
Init ==
    /\ call \in Calls
    /\ zxcvbnCalls = 0
    /\ baseline = <<>>
    /\ ret = <<>>
    /\ pc = "called"
    /\ PageInit

\* analyzePassword without the `if (!password)` early return.
analyzePasswordNoEarlyReturn ==
    /\ pc = "called"
    /\ call.fn = "analyzePassword"
    /\ \E m \in {measurements(call.arg)} :
           \E zxcvbnResult \in ZxcvbnResults :
               /\ ret' = completeAnalysis(m, zxcvbnResult)
               /\ zxcvbnCalls' = zxcvbnCalls + 1
               /\ baseline' = zxcvbnResult
    /\ pc' = "returned"
    /\ UNCHANGED <<call, pageVars>>

\* export function analyzePassword(password): the empty password returns
\* the fixed report before zxcvbn is called; otherwise zxcvbn is called
\* once and the report is built from its answer.
analyzePassword ==
    /\ pc = "called"
    /\ call.fn = "analyzePassword"
    /\ IF call.arg = <<>>
       THEN /\ ret' = emptyAnalysis
            /\ UNCHANGED <<zxcvbnCalls, baseline>>
       ELSE \E m \in {measurements(call.arg)} :
                \E zxcvbnResult \in ZxcvbnResults :
                    /\ ret' = completeAnalysis(m, zxcvbnResult)
                    /\ zxcvbnCalls' = zxcvbnCalls + 1
                    /\ baseline' = zxcvbnResult
    /\ pc' = "returned"
    /\ UNCHANGED <<call, pageVars>>

\* export function generateFeedback(analysis), called on its own.
callGenerateFeedback ==
    /\ pc = "called"
    /\ call.fn = "generateFeedback"
    /\ ret' = generateFeedback(call.arg)
    /\ pc' = "returned"
    /\ UNCHANGED <<call, zxcvbnCalls, baseline, pageVars>>

Next == analyzePassword \/ callGenerateFeedback

Spec == Init /\ [][Next]_vars

(***************************************************************************)
(* The exported calculateHashStrength called on its own, with an entropy   *)
(* argument the caller chooses.                                            *)
(***************************************************************************)
\* Entropy arguments in micro-bits: none, and 40 bits.
EntropyArguments == {0, 40000000}

HashCalls ==
    {[fn |-> "calculateHashStrength", arg |-> p, entropy |-> e] :
         p \in Passwords, e \in EntropyArguments}

HashInit ==
    /\ call \in HashCalls
    /\ zxcvbnCalls = 0
    /\ baseline = <<>>
    /\ ret = <<>>
    /\ pc = "called"
    /\ PageInit

\* export function calculateHashStrength(password, entropy).
callCalculateHashStrength ==
    /\ pc = "called"
    /\ call.fn = "calculateHashStrength"
    /\ ret' = calculateHashStrength(call.arg, call.entropy)
    /\ pc' = "returned"
    /\ UNCHANGED <<call, zxcvbnCalls, baseline, pageVars>>

HashNext == callCalculateHashStrength

HashSpec == HashInit /\ [][HashNext]_vars

(***************************************************************************)
(* STEP 6 of analyzePassword on its own: the score from a baseline and a   *)
(* combination of the signals the ten statements test.                     *)
(***************************************************************************)
\* Every combination of the signals: the four pattern flags, an n-gram
\* likelihood below 20, between 20 and 50 or above 50, a length below 8,
\* from 8 to 15 or from 16, an entropy of 40 or 70 bits (above 60 bits a
\* password has 16 characters or more), four classes present or one
\* missing.
ScoreSignals ==
    {m \in [hasDictionaryWords : BOOLEAN,
            hasKeyboardPattern : BOOLEAN,
            hasSequentialChars : BOOLEAN,
            hasRepeatedChars : BOOLEAN,
            ngramLikelihood : {Fraction(10, 1), Fraction(35, 1),
                               Fraction(75, 1)},
            length : {6, 12, 20},
            entropy : {40000000, 70000000},
            hasUppercase : BOOLEAN,
            hasLowercase : {TRUE},
            hasNumbers : {TRUE},
            hasSymbols : {TRUE}] :
         m.entropy > Entropy60 => m.length >= 16}

ScoreCalls ==
    {[fn |-> "finalScore", arg |-> m, baseline |-> b] :
         m \in ScoreSignals, b \in 0..4}

ScoreInit ==
    /\ call \in ScoreCalls
    /\ zxcvbnCalls = 0
    /\ baseline = <<>>
    /\ ret = <<>>
    /\ pc = "called"
    /\ PageInit

\* Lines 453 to 504: the ten statements and Math.round.
scoreCombiner ==
    /\ pc = "called"
    /\ call.fn = "finalScore"
    /\ ret' = MathRound(finalScore(call.baseline, call.arg))
    /\ pc' = "returned"
    /\ UNCHANGED <<call, zxcvbnCalls, baseline, pageVars>>

ScoreNext == scoreCombiner

ScoreSpec == ScoreInit /\ [][ScoreNext]_vars

(***************************************************************************)
(* BreachChecker (src/unnamed/part_000) on the page Index                  *)
(* (src/unnamed/part_003).  checkBreach is an async function: it runs      *)
(* until an await, is suspended there (a record of `flight`) and goes on   *)
(* when the awaited promise settles, while the page stays live.            *)
(***************************************************************************)
\* The code units of a string literal.
Units(text) == [i \in 1..Len(text) |-> SubSeq(text, i, i)]

\* crypto.subtle.digest('SHA-1', encoder.encode(password)): the 20 bytes of
\* the SHA-1 digest of the UTF-8 bytes, for the passwords of the model.
sha1Digest(pw) ==
    CASE pw = Units("password") ->
            <<91, 170, 97, 228, 201, 185, 63, 63, 6, 130,
              37, 11, 108, 248, 51, 27, 126, 230, 143, 216>>
      [] pw = Units("blic") ->
            <<91, 170, 106, 185, 31, 50, 41, 2, 191, 252,
              236, 92, 79, 194, 47, 45, 105, 118, 23, 54>>
      [] pw = Units("abc123") ->
            <<99, 103, 196, 141, 209, 147, 213, 110, 167, 176,
              186, 173, 37, 177, 148, 85, 229, 41, 245, 238>>

HexDigits == Units("0123456789abcdef")

\* Number.prototype.toString(16) of a byte.
toString16(b) ==
    IF b < 16 THEN <<HexDigits[b + 1]>>
    ELSE <<HexDigits[(b \div 16) + 1], HexDigits[(b % 16) + 1]>>

\* String.prototype.padStart(targetLength, fill) with a one-unit fill.
RECURSIVE padStart(_, _, _)
padStart(s, targetLength, fill) ==
    IF Len(s) >= targetLength THEN s
    ELSE padStart(<<fill>> \o s, targetLength, fill)

\* Array.prototype.join('').
RECURSIVE join(_)
join(parts) == IF parts = <<>> THEN <<>> ELSE Head(parts) \o join(Tail(parts))

toUpperCase(s) ==
    [i \in 1..Len(s) |->
        IF IsLower(s[i])
        THEN UpperAZ[CHOOSE k \in 1..26 : LowerAZ[k] = s[i]]
        ELSE s[i]]

\* hashArray.map(b => b.toString(16).padStart(2, '0')).join('').toUpperCase()
hashHexOf(pw) ==
    LET hashArray == sha1Digest(pw)
    IN  toUpperCase(join([i \in 1..Len(hashArray) |->
                             padStart(toString16(hashArray[i]), 2, "0")]))

\* The whole digest in the place of its first five characters.
prefixWholeDigest(hashHex) == hashHex

\* hashHex.substring(0, 5) and hashHex.substring(5).
prefixOf(hashHex) == substring(hashHex, 0, 5)

suffixOf(hashHex) == substring(hashHex, 5, Len(hashHex))

RangeEndpoint == Units("https://api.pwnedpasswords.com/range/")

\* String.prototype.split with a one-unit separator: the pieces between
\* the separators, of which the k-th stands at position at(k).
split(text, separator) ==
    LET places == {i \in 1..Len(text) : text[i] = separator}
        n == Cardinality(places)
        at(k) == IF k = 0 THEN 0
                 ELSE IF k = n + 1 THEN Len(text) + 1
                 ELSE CHOOSE i \in places :
                          Cardinality({j \in places : j <= i}) = k
    IN  [k \in 1..(n + 1) |-> SubSeq(text, at(k - 1) + 1, at(k) - 1)]

\* parseInt(string, 10): white space is skipped, then a sign, then the
\* decimal digits are read up to the first other unit; NaN without digits.
WhiteSpace == {" ", "\t", "\n", "\r"}

RECURSIVE skipWhiteSpace(_)
skipWhiteSpace(s) ==
    IF s # <<>> /\ Head(s) \in WhiteSpace THEN skipWhiteSpace(Tail(s)) ELSE s

RECURSIVE leadingDigits(_)
leadingDigits(s) ==
    IF s # <<>> /\ IsDigit(Head(s))
    THEN <<Head(s)>> \o leadingDigits(Tail(s))
    ELSE <<>>

RECURSIVE decimalValue(_)
decimalValue(digits) ==
    IF digits = <<>> THEN 0
    ELSE 10 * decimalValue(SubSeq(digits, 1, Len(digits) - 1))
         + (CHOOSE k \in 0..9 : Digits09[k + 1] = digits[Len(digits)])

parseInt(string) ==
    LET trimmed == skipWhiteSpace(string)
        signed == trimmed # <<>> /\ Head(trimmed) \in {"+", "-"}
        digits == leadingDigits(IF signed THEN Tail(trimmed) ELSE trimmed)
    IN  IF digits = <<>> THEN NaN
        ELSE IF signed /\ Head(trimmed) = "-"
             THEN Fraction(0 - decimalValue(digits), 1)
             ELSE Fraction(decimalValue(digits), 1)

\* Lines 48 to 60: the lines of the body are searched for the suffix; the
\* first line whose part before ':' is the suffix gives the count.  A line
\* without ':' leaves countStr undefined, which parseInt reads as the
\* string "undefined".
searchSuffix(text, suffix) ==
    LET hashes == split(text, "\n")
        found == {k \in 1..Len(hashes) : split(hashes[k], ":")[1] = suffix}
    IN  IF found = {}
        THEN [breached |-> FALSE, count |-> Fraction(0, 1)]
        ELSE LET first == CHOOSE k \in found : \A j \in found : k <= j
                 parts == split(hashes[first], ":")
                 countStr == IF Len(parts) >= 2 THEN parts[2]
                             ELSE Units("undefined")
             IN  [breached |-> TRUE, count |-> parseInt(countStr)]

\* What the user may have in the input field: nothing, two characters,
\* a breached password, one whose digest starts with the same five
\* characters, and one more.
PagePasswords ==
    {<<>>, Units("ab"), Units("password"), Units("blic"), Units("abc123")}

\* Bodies the range endpoint may send: the list for prefix 5BAA6 with the
\* suffix of "password" in it, a list without it, an empty body, an error
\* page, and a line that is the suffix without a count.
Bodies ==
    { Units("0018A45C4D1DEF81644B54AB7F969B88D65:1\r\n1E4C9B93F3F0682250B6CF8331B7EE68FD8:3861493\r\n1E4D5E0BC0D0C4B4D4C2B133E7D4B5F5B48:2"),
      Units("0018A45C4D1DEF81644B54AB7F969B88D65:1\r\n00D4F6E8FA6EECAD2A3AA415EEC418D38EC:2"),
      Units(""),
      Units("<html>502 Bad Gateway</html>"),
      Units("1E4C9B93F3F0682250B6CF8331B7EE68FD8") }

\* How a request ends: fetch rejects (network error); a response with a
\* non-success status; a success response whose body cannot be read; a
\* success response with one of the bodies.
NoReply == [kind |-> "none", ok |-> FALSE, readable |-> FALSE, text |-> <<>>]

Replies ==
    { [kind |-> "error", ok |-> FALSE, readable |-> FALSE, text |-> <<>>],
      [kind |-> "response", ok |-> FALSE, readable |-> TRUE,
       text |-> Units("<html>502 Bad Gateway</html>")],
      [kind |-> "response", ok |-> TRUE, readable |-> FALSE, text |-> <<>>] }
    \cup {[kind |-> "response", ok |-> TRUE, readable |-> TRUE, text |-> b] :
              b \in Bodies}

\* An edit whose effect sets the new timer without clearing the old one.
setPasswordNoCleanup ==
    /\ \E value \in PagePasswords :
           /\ value # currentPassword
           /\ currentPassword' = value
           /\ timers' = timers \cup {value}
    /\ UNCHANGED displayedAnalysis
    /\ UNCHANGED <<lastToast, checking, result, flight, requests>>
    /\ UNCHANGED <<analysisVars, generatorVars>>

\* onChange of the input field: setPassword(e.target.value).
setPassword ==
    /\ \E value \in PagePasswords :
           /\ value # currentPassword
           /\ currentPassword' = value
           /\ timers' = {value}
    /\ UNCHANGED displayedAnalysis
    /\ UNCHANGED <<lastToast, checking, result, flight, requests>>
    /\ UNCHANGED <<analysisVars, generatorVars>>

\* A click on the button (disabled={!password || checking}): checkBreach
\* up to its first await, `password` being the prop of this render.
checkBreach ==
    /\ currentPassword # <<>>
    /\ ~checking
    /\ IF Len(currentPassword) < 3
       THEN /\ lastToast' = "Invalid Password"
            /\ UNCHANGED <<checking, result, flight>>
       ELSE /\ checking' = TRUE
            /\ result' = null
            /\ flight' = flight \cup {[password |-> currentPassword,
                                       pc |-> "digest",
                                       suffix |-> <<>>,
                                       reply |-> NoReply]}
            /\ UNCHANGED lastToast
    /\ UNCHANGED <<currentPassword, requests>>
    /\ UNCHANGED <<analysisVars, generatorVars, debounceVars>>

\* The digest promise resolves: lines 34 to 41, up to `await fetch(...)`.
digestResolves ==
    /\ \E c \in flight :
           /\ c.pc = "digest"
           /\ LET hashHex == hashHexOf(c.password)
                  prefix == prefixOf(hashHex)
                  suffix == suffixOf(hashHex)
              IN  /\ requests' = requests \cup {RangeEndpoint \o prefix}
                  /\ flight' = (flight \ {c})
                         \cup {[c EXCEPT !.pc = "fetch", !.suffix = suffix]}
    /\ UNCHANGED <<currentPassword, lastToast, checking, result>>
    /\ UNCHANGED <<analysisVars, generatorVars, debounceVars>>

\* The network: the request of a suspended call ends in one of the ways
\* of Replies.
serverReplies ==
    /\ \E c \in flight :
           /\ c.pc = "fetch"
           /\ c.reply = NoReply
           /\ \E reply \in Replies :
                  flight' = (flight \ {c}) \cup {[c EXCEPT !.reply = reply]}
    /\ UNCHANGED <<currentPassword, lastToast, checking, result, requests>>
    /\ UNCHANGED <<analysisVars, generatorVars, debounceVars>>

\* catch without finally: the flag is left as it is.
checkFailedNoFinally(c) ==
    /\ lastToast' = "Check Failed"
    /\ UNCHANGED checking
    /\ flight' = flight \ {c}
    /\ UNCHANGED result

\* catch and finally, lines 76 to 85.
checkFailed(c) ==
    /\ lastToast' = "Check Failed"
    /\ checking' = FALSE
    /\ flight' = flight \ {c}
    /\ UNCHANGED result

\* The fetch promise settles: a rejection and a response that is not ok
\* go to catch; otherwise lines 43 to 47, up to `await response.text()`.
fetchSettles ==
    /\ \E c \in flight :
           /\ c.pc = "fetch"
           /\ c.reply # NoReply
           /\ IF c.reply.kind = "error" \/ ~c.reply.ok
              THEN checkFailed(c)
              ELSE /\ flight' = (flight \ {c}) \cup {[c EXCEPT !.pc = "text"]}
                   /\ UNCHANGED <<lastToast, checking, result>>
    /\ UNCHANGED <<currentPassword, requests>>
    /\ UNCHANGED <<analysisVars, generatorVars, debounceVars>>

\* The text promise settles: a rejection goes to catch; otherwise lines 48
\* to 75 and finally.
textSettles ==
    /\ \E c \in flight :
           /\ c.pc = "text"
           /\ IF ~c.reply.readable
              THEN checkFailed(c)
              ELSE LET found == searchSuffix(c.reply.text, c.suffix)
                   IN  /\ result' = found
                       /\ lastToast' = IF found.breached
                                       THEN "Password Breach Detected!"
                                       ELSE "No Breaches Found"
                       /\ checking' = FALSE
                       /\ flight' = flight \ {c}
    /\ UNCHANGED <<currentPassword, requests>>
    /\ UNCHANGED <<analysisVars, generatorVars, debounceVars>>

\* No call of the analysis engine is under way.
AnalysisIdle ==
    /\ call = [fn |-> "none", arg |-> <<>>]
    /\ zxcvbnCalls = 0
    /\ baseline = <<>>
    /\ ret = <<>>
    /\ pc = "idle"

BreachInit == AnalysisIdle /\ PageInit

BreachNext ==
    \/ setPassword
    \/ checkBreach
    \/ digestResolves
    \/ serverReplies
    \/ fetchSettles
    \/ textSettles

BreachSpec == BreachInit /\ [][BreachNext]_vars

\* The suffixes of the digests of the passwords a check can start with.
PageSuffixes ==
    {suffixOf(hashHexOf(p)) : p \in {q \in PagePasswords : Len(q) >= 3}}

\* The move of a suspended call past `await crypto.subtle.digest(...)`
\* and past `await response.text()`: what digestResolves and textSettles
\* do to flight, and no other step does.
digestAwaitEnds ==
    \E c \in flight :
        /\ c.pc = "digest"
        /\ \E suffix \in PageSuffixes :
               flight' = (flight \ {c})
                   \cup {[c EXCEPT !.pc = "fetch", !.suffix = suffix]}

textAwaitEnds ==
    \E c \in flight :
        /\ c.pc = "text"
        /\ flight' = flight \ {c}

\* A promise that can settle does: the digest resolves, the request ends
\* in one of the ways of Replies, and the continuations of fetch and text
\* run.
BreachLiveSpec ==
    /\ BreachSpec
    /\ WF_flight(digestAwaitEnds)
    /\ WF_vars(serverReplies)
    /\ WF_vars(fetchSettles)
    /\ WF_flight(textAwaitEnds)

(***************************************************************************)
(* The debounced analysis of Index: the effect on `password` clears the    *)
(* timer of the previous render and starts one whose callback analyses     *)
(* the password of its own render.                                         *)
(***************************************************************************)
\* What analyzePassword may return for a password, zxcvbn answering as it
\* may.
AnalysesOf(password) ==
    IF password = <<>> THEN {emptyAnalysis}
    ELSE {completeAnalysis(measurements(password), zxcvbnResult) :
              zxcvbnResult \in ZxcvbnResults}

\* The delay of a pending timer is over: the timer leaves the pending ones.
timerExpires(p) ==
    /\ p \in timers
    /\ timers' = timers \ {p}

\* The callback of a pending timer runs: analyzePasswordDebounced of the
\* password the closure holds.
timerFires(p) ==
    /\ timerExpires(p)
    /\ displayedAnalysis' \in AnalysesOf(p)
    /\ UNCHANGED <<currentPassword, lastToast, checking, result, flight,
                   requests>>
    /\ UNCHANGED <<analysisVars, generatorVars>>

DebounceInit == AnalysisIdle /\ PageInit

DebounceNext ==
    \/ setPassword
    \/ \E p \in PagePasswords : timerFires(p)

DebounceSpec == DebounceInit /\ [][DebounceNext]_vars

\* A timer that stays pending runs after its delay: only timerFires takes
\* a timer out of the pending ones without starting another.
DebounceLiveSpec ==
    DebounceSpec /\ \A p \in PagePasswords : WF_timers(timerExpires(p))

(***************************************************************************)
(* PasswordGenerator                                                       *)
(* (src/src/components/PasswordAnalyzer/PasswordGenerator.tsx).            *)
(***************************************************************************)
uppercase == UpperAZ

lowercase == LowerAZ

numbers == Digits09

symbols == Units("!@#$%^&*()_+-=[]{}|;:,.<>?")

\* The pool with the digits appended whatever the check box says.
charsetNumbersAlways(withUpper, withLower, withNumbers, withSymbols) ==
    (IF withUpper THEN uppercase ELSE <<>>)
    \o (IF withLower THEN lowercase ELSE <<>>)
    \o numbers
    \o (IF withSymbols THEN symbols ELSE <<>>)

\* Lines 31 to 35: the pool of the classes whose box is checked.
charsetOf(withUpper, withLower, withNumbers, withSymbols) ==
    (IF withUpper THEN uppercase ELSE <<>>)
    \o (IF withLower THEN lowercase ELSE <<>>)
    \o (IF withNumbers THEN numbers ELSE <<>>)
    \o (IF withSymbols THEN symbols ELSE <<>>)

\* An element of a Uint32Array is the pair <<high, low>> of its 16-bit
\* halves.  x % n for such an element.
Uint32Mod(x, n) == (((x[1] % n) * (65536 % n)) + (x[2] % n)) % n

\* Arrays crypto.getRandomValues may deliver: small values counting up by
\* 11, and the largest 32-bit values counting down by 7.
RandomArrays(n) ==
    { [i \in 1..n |-> <<0, 11 * (i - 1)>>],
      [i \in 1..n |-> <<65535, 65535 - 7 * (i - 1)>>] }

\* Positions of the slider (min 8, max 32) the model moves between.
GeneratorLengths == {8, 16}

\* onValueChange of the slider.
setLength ==
    /\ \E value \in GeneratorLengths :
           /\ value # length
           /\ length' = value
    /\ UNCHANGED <<includeUppercase, includeLowercase, includeNumbers,
                   includeSymbols, generatedPassword, generatedAnalysis>>
    /\ UNCHANGED <<analysisVars, debounceVars, currentPassword, lastToast,
                   checking, result, flight, requests>>

\* onCheckedChange of the four check boxes.
setIncludeUppercase ==
    /\ includeUppercase' = ~includeUppercase
    /\ UNCHANGED <<length, includeLowercase, includeNumbers,
                   includeSymbols, generatedPassword, generatedAnalysis>>
    /\ UNCHANGED <<analysisVars, debounceVars, currentPassword, lastToast,
                   checking, result, flight, requests>>

setIncludeLowercase ==
    /\ includeLowercase' = ~includeLowercase
    /\ UNCHANGED <<length, includeUppercase, includeNumbers,
                   includeSymbols, generatedPassword, generatedAnalysis>>
    /\ UNCHANGED <<analysisVars, debounceVars, currentPassword, lastToast,
                   checking, result, flight, requests>>

setIncludeNumbers ==
    /\ includeNumbers' = ~includeNumbers
    /\ UNCHANGED <<length, includeUppercase, includeLowercase,
                   includeSymbols, generatedPassword, generatedAnalysis>>
    /\ UNCHANGED <<analysisVars, debounceVars, currentPassword, lastToast,
                   checking, result, flight, requests>>

setIncludeSymbols ==
    /\ includeSymbols' = ~includeSymbols
    /\ UNCHANGED <<length, includeUppercase, includeLowercase,
                   includeNumbers, generatedPassword, generatedAnalysis>>
    /\ UNCHANGED <<analysisVars, debounceVars, currentPassword, lastToast,
                   checking, result, flight, requests>>

\* A click on 'Generate' without the check of the pool: an empty pool
\* gives undefined for every element, which join('') turns into the empty
\* password, analysed and handed to the page like any other.
generatePasswordNoPoolCheck ==
    /\ LET charset == charsetOf(includeUppercase, includeLowercase,
                                includeNumbers, includeSymbols)
       IN  IF charset = <<>>
           THEN /\ generatedPassword' = <<>>
                /\ generatedAnalysis' = emptyAnalysis
                /\ currentPassword' = <<>>
                /\ timers' = IF currentPassword = <<>>
                              THEN timers ELSE {<<>>}
                /\ UNCHANGED lastToast
           ELSE \E array \in RandomArrays(length) :
                    \E pw \in {[i \in 1..Len(array) |->
                                  charset[Uint32Mod(array[i], Len(charset))
                                          + 1]]} :
                        \E m \in {measurements(pw)} :
                            \E zxcvbnResult \in ZxcvbnResults :
                                /\ generatedPassword' = pw
                                /\ generatedAnalysis' =
                                       completeAnalysis(m, zxcvbnResult)
                                /\ currentPassword' = pw
                                /\ timers' = IF pw = currentPassword
                                              THEN timers ELSE {pw}
                                /\ UNCHANGED lastToast
    /\ UNCHANGED <<length, includeUppercase, includeLowercase,
                   includeNumbers, includeSymbols>>
    /\ UNCHANGED <<analysisVars, checking, result, flight, requests,
                   displayedAnalysis>>

\* A click on 'Generate': with an empty pool the error toast and nothing
\* else; otherwise one character per random value, the analysis of the
\* new password (zxcvbn answering as it may), and onPasswordGenerated,
\* which is setPassword of the page.
generatePassword ==
    /\ LET charset == charsetOf(includeUppercase, includeLowercase,
                                includeNumbers, includeSymbols)
       IN  IF charset = <<>>
           THEN /\ lastToast' = "Error"
                /\ UNCHANGED <<generatedPassword, generatedAnalysis,
                               currentPassword, timers>>
           ELSE \E array \in RandomArrays(length) :
                    \E pw \in {[i \in 1..Len(array) |->
                                  charset[Uint32Mod(array[i], Len(charset))
                                          + 1]]} :
                        \E m \in {measurements(pw)} :
                            \E zxcvbnResult \in ZxcvbnResults :
                                /\ generatedPassword' = pw
                                /\ generatedAnalysis' =
                                       completeAnalysis(m, zxcvbnResult)
                                /\ currentPassword' = pw
                                /\ timers' = IF pw = currentPassword
                                              THEN timers ELSE {pw}
                                /\ UNCHANGED lastToast
    /\ UNCHANGED <<length, includeUppercase, includeLowercase,
                   includeNumbers, includeSymbols>>
    /\ UNCHANGED <<analysisVars, checking, result, flight, requests,
                   displayedAnalysis>>

GeneratorInit == AnalysisIdle /\ PageInit

GeneratorNext ==
    \/ setLength
    \/ setIncludeUppercase
    \/ setIncludeLowercase
    \/ setIncludeNumbers
    \/ setIncludeSymbols
    \/ generatePassword

GeneratorSpec == GeneratorInit /\ [][GeneratorNext]_vars

(***************************************************************************)
(* Properties                                                              *)
(***************************************************************************)
Returned(fn) == pc = "returned" /\ call.fn = fn

\* The feedback list a returned call produced.
Feedback == IF call.fn = "analyzePassword" THEN ret.feedback ELSE ret

Sum4(d) == d.uppercase + d.lowercase + d.numbers + d.symbols

\* C1: for every password and every zxcvbn score 0..4 the returned score is
\* an integer of 0..4 and strength is the image of that score under
\* 0 -> very-weak, 1 -> weak, 2 -> fair, 3 -> strong, 4 -> very-strong.
C1_ScoreBoundedAndLabelled ==
    Returned("analyzePassword") =>
        /\ ret.score \in 0..4
        /\ ret.strength =
               <<"very-weak", "weak", "fair", "strong",
                 "very-strong">>[ret.score + 1]

\* A non-empty password whose bonuses carry the score to the ceiling.
C1_Witness ==
    /\ Returned("analyzePassword")
    /\ call.arg # <<>>
    /\ ret.length >= 16
    /\ ret.entropy > Entropy60
    /\ ret.score = 4
    /\ ret.strength = "very-strong"

\* C2: for every password, of any Unicode content, the four counts of
\* charDistribution add up to length.
C2_DistributionSumsToLength ==
    Returned("analyzePassword") => Sum4(ret.charDistribution) = ret.length

\* The counts add up to the number of code points of the password.
C2_DistributionSumsToCodePoints ==
    Returned("analyzePassword") =>
        Sum4(ret.charDistribution) = Len(CodePoints(call.arg))

\* C3: the empty password returns score 0, very-weak, entropy 0, length 0,
\* every flag false, every count 0, likelihood 0, the one placeholder
\* message, 'N/A' for the crack time and for both strings of the three
\* hashing schemes, no growth data; and zxcvbn is not called.
C3_EmptyPasswordReport ==
    (Returned("analyzePassword") /\ call.arg = <<>>) =>
        /\ ret.score = 0
        /\ ret.strength = "very-weak"
        /\ ret.entropy = 0
        /\ ret.length = 0
        /\ ~ret.hasUppercase /\ ~ret.hasLowercase
        /\ ~ret.hasNumbers /\ ~ret.hasSymbols
        /\ ~ret.hasRepeatedChars /\ ~ret.hasSequentialChars
        /\ ~ret.hasKeyboardPattern /\ ~ret.hasDictionaryWords
        /\ \A class \in {"uppercase", "lowercase", "numbers", "symbols"} :
               ret.charDistribution[class] = 0
        /\ ret.ngramLikelihood.num = 0 /\ ret.ngramLikelihood.den = 1
        /\ ret.feedback = <<"Enter a password to begin analysis">>
        /\ ret.crackTime = "N/A"
        /\ \A scheme \in {"bcrypt", "sha256", "argon2"} :
               /\ ret.hashStrength[scheme].time.unit = "N/A"
               /\ ret.hashStrength[scheme].guessesPerSecond.unit = "N/A"
        /\ ret.entropyPerCharacter = <<>>
        /\ zxcvbnCalls = 0

C3_Witness == Returned("analyzePassword") /\ call.arg = <<>>

\* C4: entropyPerCharacter has as many entries as the password has code
\* units (its length), entry i carries position i and the entropy of the
\* first i code units, and replacing any code unit after position i leaves
\* entry i as it is.
C4_EntropyGrowthOverPrefixes ==
    Returned("analyzePassword") =>
        LET password == call.arg
            growthData == ret.entropyPerCharacter
        IN  /\ Len(growthData) = ret.length
            /\ Len(growthData) = Len(password)
            /\ \A i \in 1..Len(growthData) :
                   /\ growthData[i].character = i
                   /\ growthData[i].entropy
                          = calculateEntropy(SubSeq(password, 1, i))
            /\ \A j \in 2..Len(password) : \A u \in Alphabet :
                   LET other == calculateEntropyPerCharacter(
                                    [password EXCEPT ![j] = u])
                   IN  \A i \in 1..(j - 1) : other[i] = growthData[i]

\* A password whose entropy grows along the prefixes and whose last entry
\* differs from the one before.
C4_Witness ==
    /\ Returned("analyzePassword")
    /\ Len(ret.entropyPerCharacter) >= 3
    /\ ret.entropyPerCharacter[1].entropy = 0
    /\ ret.entropyPerCharacter[2].entropy > 0
    /\ ret.entropyPerCharacter[3].entropy > ret.entropyPerCharacter[2].entropy

\* C6: analyzePassword returns for every string a report with all its
\* fields, none of them NaN or undefined: the score and its label are
\* defined, the entropy is a number (0 for the empty string), the
\* likelihood a number of [0,100] (0 when no window was examined).
AnalysisFields ==
    {"score", "strength", "entropy", "length", "hasUppercase",
     "hasLowercase", "hasNumbers", "hasSymbols", "hasRepeatedChars",
     "hasSequentialChars", "hasKeyboardPattern", "hasDictionaryWords",
     "charDistribution", "feedback", "crackTime", "ngramLikelihood",
     "hashStrength", "entropyPerCharacter"}

C6_CompleteReport ==
    Returned("analyzePassword") =>
        /\ DOMAIN ret = AnalysisFields
        /\ ret.score \in 0..4
        /\ ret.strength # "undefined"
        /\ ret.entropy \in Nat
        /\ ret.length = 0 => ret.entropy = 0
        /\ ret.ngramLikelihood # NaN
        /\ ret.ngramLikelihood.den > 0
        /\ ret.ngramLikelihood.num >= 0
        /\ ret.ngramLikelihood.num <= 100 * ret.ngramLikelihood.den
        /\ ret.length < 2 => ret.ngramLikelihood = Fraction(0, 1)
        /\ \A i \in 1..Len(ret.entropyPerCharacter) :
               ret.entropyPerCharacter[i].entropy \in Nat
        /\ \A scheme \in {"bcrypt", "sha256", "argon2"} :
               ret.hashStrength[scheme].time.value \in Nat
        /\ Len(ret.feedback) > 0


\* A one-character password: no window is examined and every count equals
\* the length.
C6_Witness ==
    /\ Returned("analyzePassword")
    /\ ret.length = 1
    /\ ret.entropy = 0
    /\ ret.ngramLikelihood = Fraction(0, 1)

\* C7: in the list generateFeedback returns no message occurs twice, any
\* two messages occur in the order length, uppercase, lowercase, numbers,
\* symbols, repeated, sequential, keyboard, dictionary, entropy, and the
\* list is never empty.
CheckOrder ==
    <<"Use at least 8 characters",
      "Add uppercase letters (A-Z)",
      "Add lowercase letters (a-z)",
      "Add numbers (0-9)",
      "Add special characters (!@#$%^&*)",
      "Avoid repeated characters (e.g., aaa, 111)",
      "Avoid sequential characters (e.g., abc, 123)",
      "Avoid keyboard patterns (e.g., qwerty, asdf)",
      "Avoid common dictionary words",
      "Increase complexity with varied characters">>

RankOf(message) == CHOOSE k \in 1..Len(CheckOrder) : CheckOrder[k] = message

C7_FeedbackOrderedWithoutRepeats ==
    pc = "returned" =>
        /\ Len(Feedback) > 0
        /\ \A i, j \in 1..Len(Feedback) :
               i < j =>
                   /\ Feedback[i] # Feedback[j]
                   /\ (Feedback[i] \in Range(CheckOrder)
                           /\ Feedback[j] \in Range(CheckOrder))
                        => RankOf(Feedback[i]) < RankOf(Feedback[j])

\* A call of generateFeedback on which all ten checks fail.
C7_Witness == Returned("generateFeedback") /\ Len(ret) = 10

\* C8: every non-empty password of entropy below 30, entropy 0 included,
\* gets the message 'Increase complexity with varied characters'.
C8_LowEntropyMessage ==
    (Returned("analyzePassword") /\ call.arg # <<>>
        /\ ret.entropy < Entropy30) =>
        "Increase complexity with varied characters" \in Range(ret.feedback)

\* C9: generateFeedback returns the success message exactly when none of
\* the ten checks fails, and the success message then stands alone.
NoCheckFails(analysis) ==
    /\ Has(analysis, "length") /\ analysis.length >= 8
    /\ Flag(analysis, "hasUppercase") /\ Flag(analysis, "hasLowercase")
    /\ Flag(analysis, "hasNumbers") /\ Flag(analysis, "hasSymbols")
    /\ ~Flag(analysis, "hasRepeatedChars")
    /\ ~Flag(analysis, "hasSequentialChars")
    /\ ~Flag(analysis, "hasKeyboardPattern")
    /\ ~Flag(analysis, "hasDictionaryWords")
    /\ ~(Has(analysis, "entropy") /\ analysis.entropy < Entropy30)

ContainsCommonWord(password) ==
    LET lower == toLowerCase(password)
    IN  \E k \in 1..Len(commonWords) :
            \E at \in 1..Len(lower) :
                /\ at + Len(commonWords[k]) - 1 <= Len(lower)
                /\ \A i \in 1..Len(commonWords[k]) :
                       lower[at + i - 1] = commonWords[k][i]

C10_DictionaryWordsFlagged ==
    Returned("analyzePassword") =>
        /\ ret.hasDictionaryWords = ContainsCommonWord(call.arg)
        /\ ("Avoid common dictionary words" \in Range(ret.feedback))
               = ContainsCommonWord(call.arg)

\* A password that holds a common word in mixed case between other
\* characters.
C10_Witness ==
    /\ Returned("analyzePassword")
    /\ ret.hasDictionaryWords
    /\ "Avoid common dictionary words" \in Range(ret.feedback)
    /\ ~detectDictionaryWordsCaseSensitive(call.arg)
    /\ ~(\E k \in 1..Len(commonWords) : toLowerCase(call.arg) = commonWords[k])

\* Some character stands three or more times in a row, upper and lower
\* case of a letter taken as the same character, any character allowed.
RepeatsIgnoringCase(password) ==
    LET lowercasePassword == toLowerCase(password)
    IN  \E i \in 1..(Len(password) - 2) :
            /\ lowercasePassword[i + 1] = lowercasePassword[i]
            /\ lowercasePassword[i + 2] = lowercasePassword[i]

\* C11: hasRepeatedCharacters is true exactly when some character occurs
\* three or more times consecutively, case-insensitively and for any
\* character, a line break included.
C11_RepeatedCaseInsensitive ==
    Returned("analyzePassword") =>
        ret.hasRepeatedChars = RepeatsIgnoringCase(call.arg)

\* The table of reference sequences as the claim states it: the alphabet,
\* the digits and the three keyboard rows, each forward and backward.
ReferenceSequences ==
    commonSequences
    \o <<keyboardRows[1][2], keyboardRows[2][2], keyboardRows[3][2]>>

\* C12: hasSequentialCharacters is true exactly when some contiguous
\* 3-character substring of the lower-cased password is a substring of an
\* entry of the reference table, backward keyboard rows included.
C12_SequentialReferenceTable ==
    Returned("analyzePassword") =>
        LET lowercasePassword == toLowerCase(call.arg)
        IN  ret.hasSequentialChars =
                \E i \in 1..(Len(call.arg) - 2) :
                    \E k \in 1..Len(ReferenceSequences) :
                        includes(ReferenceSequences[k],
                                 SubSeq(lowercasePassword, i, i + 2))

\* C13: the n-gram likelihood lies in [0,100] and is
\* min(100, 100 * (found2 + 1.5 * found3) / (windows2 + windows3)), where
\* windows2 and windows3 count the 2- and 3-character windows of the
\* lower-cased password and found2 and found3 those found in the tables;
\* it is 0 for a password shorter than 2 characters.
C13_NgramLikelihoodFormula ==
    Returned("analyzePassword") =>
        LET lowercasePassword == toLowerCase(call.arg)
            n == Len(call.arg)
            windows2 == IF n >= 2 THEN n - 1 ELSE 0
            windows3 == IF n >= 3 THEN n - 2 ELSE 0
            found2 == Cardinality(
                {i \in 1..(n - 1) :
                    \E k \in 1..Len(common2CharChunks) :
                        common2CharChunks[k]
                            = SubSeq(lowercasePassword, i, i + 1)})
            found3 == Cardinality(
                {i \in 1..(n - 2) :
                    \E k \in 1..Len(common3CharChunks) :
                        common3CharChunks[k]
                            = SubSeq(lowercasePassword, i, i + 2)})
            x == ret.ngramLikelihood
            num == 100 * (2 * found2 + 3 * found3)
            den == 2 * (windows2 + windows3)
        IN  /\ x.den > 0
            /\ 0 <= x.num
            /\ x.num <= 100 * x.den
            /\ n < 2 => x.num = 0
            /\ n >= 2 =>
                   IF num > 100 * den
                   THEN x.num = 100 * x.den
                   ELSE x.num * den = num * x.den

\* A password of three or more characters some of whose windows are
\* found and some not.
C13_Witness ==
    /\ Returned("analyzePassword")
    /\ Len(call.arg) >= 3
    /\ 0 < ret.ngramLikelihood.num
    /\ ret.ngramLikelihood.num < 100 * ret.ngramLikelihood.den

\* The case of C14: a returned report of a 20-character password with all
\* four classes, no detector flag and Shannon entropy above 60.
TwentyCharactersNoPattern ==
    /\ Returned("analyzePassword")
    /\ ret.length = 20
    /\ ret.hasUppercase /\ ret.hasLowercase
    /\ ret.hasNumbers /\ ret.hasSymbols
    /\ ~ret.hasRepeatedChars /\ ~ret.hasSequentialChars
    /\ ~ret.hasKeyboardPattern /\ ~ret.hasDictionaryWords
    /\ ret.entropy > Entropy60

\* C14: a 20-character password of that kind gets score 4 and 'very-strong' for
\* every baseline score in 0..4 and every n-gram likelihood.
C14_TwentyCharactersScoreFour ==
    TwentyCharactersNoPattern =>
        ret.score = 4 /\ ret.strength = "very-strong"

\* The shorter passwords of C15: 8 to 15 characters, all distinct, no
\* detector flag and an n-gram likelihood not above 50.
ShortCleanPasswords ==
    {q \in Passwords :
        /\ Len(q) >= 8 /\ Len(q) <= 15
        /\ \A i, j \in 1..Len(q) : q[i] = q[j] => i = j
        /\ ~detectDictionaryWords(q) /\ ~detectKeyboardPattern(q)
        /\ ~hasSequentialCharacters(q) /\ ~hasRepeatedCharacters(q)
        /\ ~FracGT(calculateNgramLikelihood(q), 50)}

\* The score analyzePassword(q) reports when zxcvbn answers `score`.
ScoreOf(q, score) == MathRound(finalScore(score, measurements(q)))

\* C15: a password of 16 or more characters that contains a dictionary
\* word never gets a strictly higher score than a shorter password on
\* which no detector fires, whatever the two baseline scores.
C15_PenaltiesDominateBonuses ==
    (/\ Returned("analyzePassword")
     /\ ret.length >= 16
     /\ ret.hasDictionaryWords)
        => \A q \in ShortCleanPasswords :
               \A score \in 0..4 : ret.score <= ScoreOf(q, score)

\* The characters of the password that are one code unit of the set.
CharactersIn(chars, set) ==
    {i \in 1..Len(chars) : Len(chars[i]) = 1 /\ chars[i][1] \in set}

\* C16: the four class flags are (count > 0) of the four class counts, and
\* every character is counted in exactly one class: a letter A-Z, a letter
\* a-z, a digit 0-9, and as a symbol every other character (a line break,
\* a character outside the basic plane).
C16_FlagsAgreeWithCounts ==
    Returned("analyzePassword") =>
        LET d == ret.charDistribution
            chars == CodePoints(call.arg)
            upper == CharactersIn(chars, UpperSet)
            lower == CharactersIn(chars, LowerSet)
            digit == CharactersIn(chars, DigitSet)
        IN  /\ ret.hasUppercase = (d.uppercase > 0)
            /\ ret.hasLowercase = (d.lowercase > 0)
            /\ ret.hasNumbers = (d.numbers > 0)
            /\ ret.hasSymbols = (d.symbols > 0)
            /\ d.uppercase = Cardinality(upper)
            /\ d.lowercase = Cardinality(lower)
            /\ d.numbers = Cardinality(digit)
            /\ d.symbols =
                   Cardinality((1..Len(chars)) \ (upper \cup lower \cup digit))

\* A digit and a character of two code units in one password: the pair is
\* one character, counted once, as a symbol.
C16_Witness ==
    /\ Returned("analyzePassword")
    /\ Len(CodePoints(call.arg)) < Len(call.arg)
    /\ ret.hasNumbers /\ ret.hasSymbols
    /\ ret.charDistribution.numbers = 1
    /\ ret.charDistribution.symbols = 1

\* The reference SHA-1 digests, 40 upper-case hexadecimal characters.
ReferenceDigest(pw) ==
    CASE pw = Units("password") ->
            Units("5BAA61E4C9B93F3F0682250B6CF8331B7EE68FD8")
      [] pw = Units("blic") ->
            Units("5BAA6AB91F322902BFFCEC5C4FC22F2D69761736")
      [] pw = Units("abc123") ->
            Units("6367C48DD193D56EA7B0BAAD25B19455E529F5EE")
      [] pw = Units("ab") ->
            Units("DA23614E02469A0D7C7BD1BDAB5C9C474B1904DC")

\* What a request carries after the fixed address of the range endpoint.
SentWith(url) == SubSeq(url, Len(RangeEndpoint) + 1, Len(url))

\* C17: a request carries, after the fixed endpoint address, exactly the
\* first 5 characters of the 40-character upper-case hex SHA-1 digest of
\* the password it was issued for; no password, no digest and no
\* 35-character suffix is part of any request, and the request of every
\* check under way is the one of its prefix.
C17_OnlyPrefixLeaves ==
    /\ \A url \in requests :
           /\ Len(url) = Len(RangeEndpoint) + 5
           /\ SubSeq(url, 1, Len(RangeEndpoint)) = RangeEndpoint
           /\ \E pw \in PagePasswords :
                  /\ Len(pw) >= 3
                  /\ SentWith(url) = SubSeq(ReferenceDigest(pw), 1, 5)
           /\ \A pw \in PagePasswords \ {<<>>} :
                  /\ ~includes(SentWith(url), pw)
                  /\ ~includes(SentWith(url), ReferenceDigest(pw))
                  /\ ~includes(SentWith(url),
                               SubSeq(ReferenceDigest(pw), 6, 40))
    /\ \A c \in flight :
           c.pc # "digest" =>
               /\ RangeEndpoint \o SubSeq(ReferenceDigest(c.password), 1, 5)
                      \in requests
               /\ c.suffix = SubSeq(ReferenceDigest(c.password), 6, 40)

\* Requests for two different prefixes were sent and the answer to the
\* latest is being read.
C17_Witness ==
    /\ Cardinality(requests) = 2
    /\ \E c \in flight : c.pc = "text" /\ c.password = Units("password")

UpperHex == {"0", "1", "2", "3", "4", "5", "6", "7", "8", "9",
             "A", "B", "C", "D", "E", "F"}

\* A line `suffix:count`: 35 hexadecimal characters, a colon, a decimal
\* count; a carriage return may end the line.
IsSuffixCountLine(line) ==
    LET bare == IF line # <<>> /\ line[Len(line)] = "\r"
                THEN SubSeq(line, 1, Len(line) - 1)
                ELSE line
        parts == split(bare, ":")
    IN  /\ Len(parts) = 2
        /\ Len(parts[1]) = 35
        /\ \A i \in 1..35 : parts[1][i] \in UpperHex
        /\ parts[2] # <<>>
        /\ \A i \in 1..Len(parts[2]) : IsDigit(parts[2][i])

\* A list of suffix:count lines; empty lines (an empty body, a line break
\* at the end) are let pass.
WellFormedBody(text) ==
    LET lines == split(text, "\n")
    IN  \A k \in 1..Len(lines) :
            lines[k] \in {<<>>, <<"\r">>} \/ IsSuffixCountLine(lines[k])

\* A network error, a non-success response, or a body that cannot be read
\* or is not a list of suffix:count lines.
FailedReply(reply) ==
    \/ reply.kind = "error"
    \/ ~reply.ok
    \/ ~reply.readable
    \/ ~WellFormedBody(reply.text)

SuffixListed(text, suffix) ==
    LET lines == split(text, "\n")
    IN  \E k \in 1..Len(lines) : split(lines[k], ":")[1] = suffix

\* C18: a check that meets a network error, a non-success response or a
\* malformed body ends with 'Check Failed' and no result; {breached: false}
\* and 'No Breaches Found' come only from a well-formed response none of
\* whose lines has the suffix.
C18_FailureIsNeverNotFound ==
    [][\A c \in flight :
           flight' = flight \ {c} =>
               /\ FailedReply(c.reply) =>
                      lastToast' = "Check Failed" /\ result' = null
               /\ (\/ lastToast' = "No Breaches Found"
                   \/ result' = [breached |-> FALSE,
                                 count |-> Fraction(0, 1)])
                      => /\ ~FailedReply(c.reply)
                         /\ ~SuffixListed(c.reply.text, c.suffix)]_vars

\* C19: when the password was changed while a check was in flight, the
\* answer of that check is discarded: it does not set the result.
C19_StaleResponseDiscarded ==
    [][\A c \in flight :
           (flight' = flight \ {c} /\ c.password # currentPassword)
               => result' = result]_vars

\* The characters of the classes whose box is checked.
EnabledCharacters ==
    (IF includeUppercase THEN UpperSet ELSE {})
    \cup (IF includeLowercase THEN LowerSet ELSE {})
    \cup (IF includeNumbers THEN DigitSet ELSE {})
    \cup (IF includeSymbols THEN Range(symbols) ELSE {})

\* C20: with at least one class enabled, a password generatePassword
\* produces has the length the slider selects and only characters of the
\* enabled classes.
C20_GeneratedWithinEnabledClasses ==
    [][(\/ generatedPassword' # generatedPassword
        \/ generatedAnalysis' # generatedAnalysis)
           => /\ EnabledCharacters # {}
              /\ Len(generatedPassword') = length
              /\ \A i \in 1..Len(generatedPassword') :
                     generatedPassword'[i] \in EnabledCharacters]_vars

\* A password of 8 characters generated with the digits disabled: letters
\* of both cases and symbols, no digit.
C20_Witness ==
    /\ length = 8
    /\ ~includeNumbers /\ includeUppercase /\ includeLowercase
    /\ includeSymbols
    /\ Len(generatedPassword) = 8
    /\ TestOther(generatedPassword)
    /\ TestUpper(generatedPassword)
    /\ ~TestDigit(generatedPassword)

\* The number of 16-bit halves h, 0 to 65535, with h % n = a.
HalvesWithRemainder(a, n) == ((65535 - a) \div n) + 1

RECURSIVE ValuesMappingFrom(_, _, _)
\* The number of elements x of a Uint32Array with x % n = k whose high
\* half has a remainder of a or more: the sum over the remainders of the
\* two halves that 'x % n' takes to k.
ValuesMappingFrom(a, k, n) ==
    IF a >= n THEN 0
    ELSE LET lows == {b \in 0..(n - 1) : Uint32Mod(<<a, b>>, n) = k}
             low == CHOOSE b \in lows : TRUE
         IN  (IF lows = {} THEN 0
              ELSE HalvesWithRemainder(a, n) * HalvesWithRemainder(low, n))
             + ValuesMappingFrom(a + 1, k, n)

\* The number of the 2^32 values of a random element that select index k
\* of a pool of n characters.
ValuesMappingTo(k, n) == ValuesMappingFrom(0, k, n)

\* C21: whatever classes are enabled (at least one), every index of the
\* pool is selected by the same number of 32-bit random values, so each
\* character is drawn uniformly.
C21_UniformDraw ==
    LET n == Len(charsetOf(includeUppercase, includeLowercase,
                           includeNumbers, includeSymbols))
    IN  n > 0 => \A k \in 0..(n - 1) :
                     ValuesMappingTo(k, n) = ValuesMappingTo(0, n)

\* C22: a click on 'Generate' with no class enabled shows the error toast
\* and changes nothing else: the generated password, its analysis and the
\* page's password (set by the onPasswordGenerated callback) stay as they
\* were, so no empty password is produced.
C22_EmptyPoolOnlyReportsError ==
    [][(/\ charsetOf(includeUppercase, includeLowercase,
                     includeNumbers, includeSymbols) = <<>>
        /\ UNCHANGED <<length, includeUppercase, includeLowercase,
                       includeNumbers, includeSymbols>>)
           => /\ lastToast' = "Error"
              /\ UNCHANGED <<generatedPassword, generatedAnalysis,
                             currentPassword>>
              /\ UNCHANGED <<analysisVars, checking, result, flight,
                             requests>>]_vars

\* The error reported with every box unchecked while the password
\* generated earlier, its analysis and the page's password are still there.
C22_Witness ==
    /\ lastToast = "Error"
    /\ ~includeUppercase /\ ~includeLowercase
    /\ ~includeNumbers /\ ~includeSymbols
    /\ Len(generatedPassword) = 16
    /\ generatedAnalysis # null
    /\ currentPassword = generatedPassword

TenthsPenalty(condition, s, w) == IF condition THEN Max(0, s - w) ELSE s

TenthsBonus(condition, s, w) == IF condition THEN Min(40, s + w) ELSE s

ScoreInTenths(b, a) ==
    LET s0  == 10 * b
        s1  == TenthsPenalty(a.hasDictionaryWords, s0, 15)
        s2  == TenthsPenalty(a.hasKeyboardPattern, s1, 12)
        s3  == TenthsPenalty(FracGT(a.ngramLikelihood, 50), s2, 10)
        s4  == TenthsPenalty(a.hasSequentialChars, s3, 8)
        s5  == TenthsPenalty(a.hasRepeatedChars, s4, 7)
        s6  == TenthsPenalty(a.length < 8, s5, 5)
        s7  == TenthsBonus(a.length >= 16, s6, 10)
        s8  == TenthsBonus(a.entropy > Entropy60, s7, 10)
        s9  == TenthsBonus(a.hasUppercase /\ a.hasLowercase /\ a.hasNumbers
                               /\ a.hasSymbols,
                           s8, 10)
        s10 == TenthsBonus(FracLT(a.ngramLikelihood, 20), s9, 5)
    IN  s10

\* Round-half-up of a number of tenths.
RoundHalfUpTenths(s) == (s + 5) \div 10

\* C24: for every baseline 0..4 and every combination of signals the
\* final score is the round-half-up of the value obtained from the
\* baseline by the triggered penalties, each clamped at 0, followed by the
\* triggered bonuses, each clamped at 4.
C24_ScoreIsRoundedClampedSum ==
    (Returned("analyzePassword") /\ call.arg # <<>>) =>
        ret.score = RoundHalfUpTenths(ScoreInTenths(baseline.score, ret))

\* The six penalty statements: their weights and, for a report a, whether
\* each is triggered, in the order of the code.
PenaltyWeights ==
    <<Dbl1_5, Dbl1_2, DblFromInt(1), Dbl0_8, Dbl0_7, Dbl0_5>>

PenaltySignals(a) ==
    <<a.hasDictionaryWords, a.hasKeyboardPattern,
      FracGT(a.ngramLikelihood, 50), a.hasSequentialChars,
      a.hasRepeatedChars, a.length < 8>>

\* All orders of the six statements.
PenaltyOrders ==
    {order \in [1..6 -> 1..6] :
         \A i, j \in 1..6 : i # j => order[i] # order[j]}

RECURSIVE PenaltiesInOrder(_, _, _, _)
\* The running score after the statements order[i], order[i + 1], ...
\* applied to score, each with its clamp at 0.
PenaltiesInOrder(order, i, score, signals) ==
    IF i > Len(order) THEN score
    ELSE PenaltiesInOrder(order, i + 1,
                          Penalty(signals[order[i]], score,
                                  PenaltyWeights[order[i]]),
                          signals)

RECURSIVE TriggeredWeight(_, _)
\* The sum of the weights of the triggered statements i, i + 1, ...
TriggeredWeight(i, signals) ==
    IF i > Len(signals) THEN DblFromInt(0)
    ELSE DblAdd(IF signals[i] THEN PenaltyWeights[i] ELSE DblFromInt(0),
                TriggeredWeight(i + 1, signals))

\* C25: the order of the six penalties does not matter: every permutation
\* of the clamped subtractions leaves the same running score, which is
\* max(0, baseline - sum of the triggered weights), the value of a single
\* clamp at the end of the penalty phase.
C25_PenaltyOrderIrrelevant ==
    (Returned("analyzePassword") /\ call.arg # <<>>) =>
        LET signals == PenaltySignals(ret)
            start == DblFromInt(baseline.score)
            inCodeOrder ==
                PenaltiesInOrder([i \in 1..6 |-> i], 1, start, signals)
        IN  /\ \A order \in PenaltyOrders :
                   PenaltiesInOrder(order, 1, start, signals) = inCodeOrder
            /\ inCodeOrder
                   = MaxZeroMinus(start, TriggeredWeight(1, signals))

\* The classes that occur in a password, and the pool the claim gives
\* them: 26 lowercase, 26 uppercase, 10 digits, 32 others.
ClassesPresent(password) ==
    {ClassOf(<<password[i]>>) : i \in 1..Len(password)}

PoolOfClasses(classes) ==
    (IF "lowercase" \in classes THEN 26 ELSE 0)
    + (IF "uppercase" \in classes THEN 26 ELSE 0)
    + (IF "numbers" \in classes THEN 10 ELSE 0)
    + (IF "symbols" \in classes THEN 32 ELSE 0)

\* The time of a scheme from the length and the classes alone:
\* pool ^ length combinations at twice the rate.
CrackTimeFrom(n, classes, rate) ==
    formatTime(BigPow(PoolOfClasses(classes), n),
               BigMulSmall(BigFromInt(rate), 2))

\* C26: for a non-empty password the time of each scheme is that of
\* pool ^ length / (rate * 2) with the pool of the present classes and the
\* rates 1000, 1000000000 and 500; it is a function of the length and the
\* class set only, whatever the entropy argument.
C26_CrackTimeFromPoolAndLength ==
    (Returned("calculateHashStrength") /\ call.arg # <<>>) =>
        LET n == Len(call.arg)
            classes == ClassesPresent(call.arg)
        IN  /\ ret.bcrypt.time = CrackTimeFrom(n, classes, 1000)
            /\ ret.sha256.time = CrackTimeFrom(n, classes, 1000000000)
            /\ ret.argon2.time = CrackTimeFrom(n, classes, 500)

\* A call with four classes, 8 characters and an entropy argument of 40
\* bits, whose sha256 time is counted in hours or more.
C26_Witness ==
    /\ Returned("calculateHashStrength")
    /\ Len(call.arg) = 8
    /\ ClassesPresent(call.arg)
           = {"lowercase", "uppercase", "numbers", "symbols"}
    /\ call.entropy = 40000000
    /\ ret.sha256.time.unit \notin {"seconds", "minutes"}

\* C27: the debounced analysis converges to the latest input: as long as
\* the password stays what it is, the displayed analysis eventually is
\* analyzePassword of it; the only timer pending is the one of the current
\* password, and a callback never replaces the analysis by that of a
\* password that is no longer the current one.
C27_DebounceConverges ==
    /\ [](timers \subseteq {currentPassword})
    /\ [][displayedAnalysis' # displayedAnalysis
              => displayedAnalysis' \in AnalysesOf(currentPassword')]_vars
    /\ \A p \in PagePasswords :
           (currentPassword = p)
               ~> (\/ currentPassword # p
                   \/ (timers = {} /\ displayedAnalysis \in AnalysesOf(p)))

\* The analysis of "password" displayed after the password went through
\* "ab": the timer of "ab" was cleared or ran before.
C27_Witness ==
    /\ currentPassword = Units("password")
    /\ timers = {}
    /\ displayedAnalysis \in AnalysesOf(Units("password"))
    /\ displayedAnalysis.score = 0
    /\ displayedAnalysis.hasDictionaryWords

\* C28: every breach check that starts finishes with checking back to
\* false, however the request ends; checking is true exactly while a call
\* is suspended, and at most one is; a click with a password shorter than
\* 3 characters issues no request and leaves checking and the result as
\* they were.
C28_CheckAlwaysFinishes ==
    /\ [](Cardinality(flight) <= 1 /\ (checking <=> flight # {}))
    /\ [][(/\ ~checking
           /\ Len(currentPassword) < 3
           /\ currentPassword' = currentPassword)
              => /\ requests' = requests
                 /\ flight' = flight
                 /\ checking' = checking
                 /\ result' = result]_vars
    /\ checking ~> ~checking

\* A check that ended in catch: 'Check Failed' shown, checking false again,
\* a request issued.
C28_Witness ==
    /\ lastToast = "Check Failed"
    /\ ~checking
    /\ flight = {}
    /\ requests # {}

\* C29: whenever the feedback of analyzePassword is the success message,
\* the score of the same report is at least 3 ('strong' or 'very-strong'),
\* whatever zxcvbn answered.
C29_SuccessMeansStrong ==
    (Returned("analyzePassword") /\ ret.feedback = <<SuccessMessage>>) =>
        /\ ret.score >= 3
        /\ ret.strength \in {"strong", "very-strong"}

\* The signal combinations that differ from m in one penalty signal, off
\* in m and on in them: a pattern flag, the likelihood raised from the
\* middle range above 50 (the bonus below 20 untouched), the length
\* lowered from 8..15 below 8 (the bonus from 16 untouched).
OnePenaltyMore(m) ==
    (IF m.hasDictionaryWords THEN {}
     ELSE {[m EXCEPT !.hasDictionaryWords = TRUE]})
    \cup (IF m.hasKeyboardPattern THEN {}
          ELSE {[m EXCEPT !.hasKeyboardPattern = TRUE]})
    \cup (IF m.hasSequentialChars THEN {}
          ELSE {[m EXCEPT !.hasSequentialChars = TRUE]})
    \cup (IF m.hasRepeatedChars THEN {}
          ELSE {[m EXCEPT !.hasRepeatedChars = TRUE]})
    \cup (IF FracGT(m.ngramLikelihood, 50) \/ FracLT(m.ngramLikelihood, 20)
          THEN {}
          ELSE {[m EXCEPT !.ngramLikelihood = Fraction(75, 1)]})
    \cup (IF m.length < 8 \/ m.length >= 16 THEN {}
          ELSE {[m EXCEPT !.length = 6]})

\* C30: the final score is monotone: with the signals fixed a higher
\* baseline never gives a lower score, and with the baseline and the other
\* signals fixed one more penalty signal never gives a higher score.
C30_ScoreMonotone ==
    Returned("finalScore") =>
        /\ \A b \in call.baseline..4 :
               MathRound(finalScore(b, call.arg)) >= ret
        /\ \A m \in OnePenaltyMore(call.arg) :
               MathRound(finalScore(call.baseline, m)) <= ret

\* Baseline 2 with no penalty, a likelihood of 35 and 12 characters, one
\* class missing: score 2, which baseline 3 raises and the dictionary
\* penalty lowers.
C30_Witness ==
    /\ Returned("finalScore")
    /\ call.baseline = 2
    /\ Cardinality(OnePenaltyMore(call.arg)) = 6
    /\ ret = 2
    /\ MathRound(finalScore(3, call.arg)) = 3
    /\ MathRound(finalScore(2, [call.arg EXCEPT
                                    !.hasDictionaryWords = TRUE])) = 1

====
